---- MODULE Spec2Model ----
(***************************************************************************)
(* Model of the Open edX data harvester (scripts/): the repository access  *)
(* gateway with its cache, the release / pin / component-version           *)
(* resolvers, the plugin-slot extractor and the release orchestrator.      *)
(* Text is modelled as TLA+ strings; a character is a string of length 1.  *)
(***************************************************************************)
EXTENDS Integers, Sequences, FiniteSets, TLC

VARIABLES
    \* ---- remote repository host (fixed during one behaviour) ----
    remoteBranches,   \* set of <<repo, ref>>: branches that exist in openedx/<repo>
    remoteTags,       \* set of <<repo, ref>>: tags that exist in openedx/<repo>
    \* ---- scripts/lib/github.ts ----
    cache,            \* the module-level Map: key string -> cached value
    \* ---- one call of the release resolver (scripts/lib/releases.ts) ----
    rcall,            \* record of the last resolver call, or NoCall
    ncalls,           \* number of resolver calls made so far
    \* ---- remote file tree ----
    remoteContent,    \* <<repo, ref, path>> -> what repos.getContent answers
    \* ---- one call of a function on a text (requirements.ts, collect-plugins.ts) ----
    finput,           \* the argument the function is applied to, Null if none
    fcall,            \* record of the call and its result, or NoCall
    \* ---- the collectors (collect-plugins.ts, collect-components.ts) ----
    componentCache,   \* "header:<version>" / "footer:<version>" -> ComponentData
    files,            \* the data directory: path -> content written
    log,              \* console lines written so far
    \* ---- one run of collect-releases ----
    pc,               \* position of the run
    argv,             \* [release, dev, dryRun]: --release=<slug> (Null if absent), --dev, --dry-run
    relIdx,           \* index of the release being processed
    rel,              \* locals of collectForRelease for that release
    manifestEntries   \* entries produced by this run

remoteVars == <<remoteBranches, remoteTags, remoteContent>>
resolveVars == <<rcall, ncalls>>
fnVars == <<finput, fcall>>
plugVars == <<componentCache, files, log>>
orchVars == <<pc, argv, relIdx, rel, manifestEntries>>
vars == <<remoteBranches, remoteTags, remoteContent, cache, rcall, ncalls, finput, fcall,
          componentCache, files, log, pc, argv, relIdx, rel, manifestEntries>>

Null == "<null>"          \* JavaScript null / undefined
NoCall == [fn |-> "none"]

NoFiles == [k \in {} |-> Null]

\* the locals of collectForRelease before anything was resolved
NoRel == [platformRef |-> Null, filtersVersion |-> Null, filtersRef |-> Null,
          eventsVersion |-> Null, eventsRef |-> Null, warnings |-> <<>>]

\* ---------------------------------------------------------------------
\* Bounds
\* ---------------------------------------------------------------------
MaxCalls == 3             \* resolver calls in one behaviour of SpecResolve
MaxPinLines == 2          \* lines of a requirements document in SpecPin
MaxVerLen == 5            \* characters after the range operator in SpecVer
MaxReadmeLines == 2       \* lines of a README in SpecSlot

\* ---------------------------------------------------------------------
\* Text primitives (JavaScript String and RegExp building blocks)
\* ---------------------------------------------------------------------
Ch(s, i) == SubSeq(s, i, i)

Min(S) == CHOOSE x \in S : \A y \in S : x <= y

\* the value of F at v, v being computed once (a local constant of the code)
Bind(v, F(_)) == CHOOSE out \in { F(x) : x \in {v} } : TRUE

\* the characters matched by \s that occur in the modelled texts
Ws == {" ", "\t", "\r", "\n"}

UpperAlpha == "ABCDEFGHIJKLMNOPQRSTUVWXYZ"
LowerAlpha == "abcdefghijklmnopqrstuvwxyz"
Digits == {"0", "1", "2", "3", "4", "5", "6", "7", "8", "9"}

LowerCh(c) ==
    IF \E i \in 1..26 : Ch(UpperAlpha, i) = c
    THEN Ch(LowerAlpha, CHOOSE i \in 1..26 : Ch(UpperAlpha, i) = c)
    ELSE c

\* String.prototype.toLowerCase
RECURSIVE toLowerCase(_)
toLowerCase(s) ==
    IF s = "" THEN "" ELSE LowerCh(Ch(s, 1)) \o toLowerCase(SubSeq(s, 2, Len(s)))

\* first position >= pos holding a character of stops, Len(s)+1 if none
ScanUntil(s, pos, stops) ==
    LET idx == { i \in pos..Len(s) : Ch(s, i) \in stops }
    IN IF idx = {} THEN Len(s) + 1 ELSE Min(idx)

\* first position >= pos holding a character outside set, Len(s)+1 if none
ScanWhile(s, pos, set) ==
    LET idx == { i \in pos..Len(s) : Ch(s, i) \notin set }
    IN IF idx = {} THEN Len(s) + 1 ELSE Min(idx)

\* last position holding a character outside set, 0 if none
LastOutside(s, set) ==
    LET idx == { i \in 1..Len(s) : Ch(s, i) \notin set }
    IN IF idx = {} THEN 0 ELSE CHOOSE i \in idx : \A j \in idx : j <= i

\* String.prototype.trim
trim(s) == SubSeq(s, ScanWhile(s, 1, Ws), LastOutside(s, Ws))

\* String.prototype.split with a one-character separator
RECURSIVE split(_, _)
split(s, sep) ==
    LET p == ScanUntil(s, 1, {sep})
    IN IF p > Len(s) THEN <<s>>
       ELSE <<SubSeq(s, 1, p - 1)>> \o split(SubSeq(s, p + 1, Len(s)), sep)

\* Array.prototype.join
RECURSIVE join(_, _)
join(parts, sep) ==
    IF Len(parts) = 0 THEN ""
    ELSE IF Len(parts) = 1 THEN parts[1]
    ELSE parts[1] \o sep \o join(Tail(parts), sep)

\* String.prototype.startsWith
startsWith(s, lit) == Len(s) >= Len(lit) /\ SubSeq(s, 1, Len(lit)) = lit

\* String.prototype.slice(0, n)
slice0(s, n) == SubSeq(s, 1, IF Len(s) < n THEN Len(s) ELSE n)

\* literal text lit matches at position pos of s, letters compared
\* without regard to case (a literal fragment of a RegExp with flag i)
CharEqCI(a, b) == a = b \/ LowerCh(a) = LowerCh(b)

LitAtCI(s, pos, lit) ==
    /\ pos + Len(lit) - 1 <= Len(s)
    /\ \A i \in 1..Len(lit) : CharEqCI(Ch(s, pos + i - 1), Ch(lit, i))

\* replace(/^v/, '')
StripLeadingV(s) == IF startsWith(s, "v") THEN SubSeq(s, 2, Len(s)) ELSE s

\* ---------------------------------------------------------------------
\* scripts/lib/releases.ts
\* ---------------------------------------------------------------------
KNOWN_RELEASES ==
    << [slug |-> "sumac", name |-> "Sumac"],
       [slug |-> "teak",  name |-> "Teak"],
       [slug |-> "ulmo",  name |-> "Ulmo"] >>

KnownSlugs == { KNOWN_RELEASES[i].slug : i \in DOMAIN KNOWN_RELEASES }

BRANCH_CANDIDATES_swapped(slug) ==
    << "release/" \o slug \o ".master",
       "open-release/" \o slug \o ".master",
       "release/" \o slug >>

BRANCH_CANDIDATES(slug) ==
    << "open-release/" \o slug \o ".master",
       "release/" \o slug \o ".master",
       "release/" \o slug >>

\* ---------------------------------------------------------------------
\* scripts/lib/github.ts
\* ---------------------------------------------------------------------
CachePut(c, key, val) == [k \in (DOMAIN c) \cup {key} |-> IF k = key THEN val ELSE c[k]]

EmptyCache == [k \in {} |-> FALSE]

RefExistsKey(owner, repo, ref) == "refExists:" \o owner \o "/" \o repo \o "@" \o ref

\* refExists: cache hit, else getBranch, else git.getRef tags/<ref>; the
\* answer is stored in the cache on each of the three exits.
RefExists(c, owner, repo, ref) ==
    LET key == RefExistsKey(owner, repo, ref) IN
    IF key \in DOMAIN c
    THEN [ans |-> c[key], cache |-> c]
    ELSE IF <<repo, ref>> \in remoteBranches
    THEN [ans |-> TRUE, cache |-> CachePut(c, key, TRUE)]
    ELSE IF <<repo, ref>> \in remoteTags
    THEN [ans |-> TRUE, cache |-> CachePut(c, key, TRUE)]
    ELSE [ans |-> FALSE, cache |-> CachePut(c, key, FALSE)]

\* ---------------------------------------------------------------------
\* scripts/lib/releases.ts: the candidate loop shared by
\* resolveEdxPlatformRef and resolveMfeRef.  st carries the cache, the
\* probes made so far and the result; the loop returns at the first
\* candidate whose probe answered true.
\* ---------------------------------------------------------------------
\* mutant: the loop goes on probing after a candidate was found
RECURSIVE ProbeLoop_pastHit(_, _, _, _, _)
ProbeLoop_pastHit(c, repo, cands, i, probes) ==
    IF i > Len(cands)
    THEN [result |-> Null, cache |-> c, probes |-> probes]
    ELSE LET r == RefExists(c, "openedx", repo, cands[i])
             p == Append(probes, [ref |-> cands[i], ans |-> r.ans])
             rest == ProbeLoop_pastHit(r.cache, repo, cands, i + 1, p)
         IN IF r.ans
            THEN [result |-> cands[i], cache |-> rest.cache, probes |-> rest.probes]
            ELSE rest

RECURSIVE ProbeLoop(_, _, _, _, _)
ProbeLoop(c, repo, cands, i, probes) ==
    IF i > Len(cands)
    THEN [result |-> Null, cache |-> c, probes |-> probes]
    ELSE LET r == RefExists(c, "openedx", repo, cands[i])
             p == Append(probes, [ref |-> cands[i], ans |-> r.ans])
         IN IF r.ans
            THEN [result |-> cands[i], cache |-> r.cache, probes |-> p]
            ELSE ProbeLoop(r.cache, repo, cands, i + 1, p)

resolveEdxPlatformRef(c, slug) ==
    ProbeLoop(c, "edx-platform", BRANCH_CANDIDATES(slug), 1, <<>>)

resolveMfeRef(c, repoName, slug) ==
    ProbeLoop(c, repoName, BRANCH_CANDIDATES(slug), 1, <<>>)

cacheKey(owner, repo, path, ref) ==
    owner \o "/" \o repo \o "@" \o (IF ref = Null THEN "default" ELSE ref) \o ":" \o path

\* getTextFile: cache hit; else repos.getContent: a file answer is cached
\* and returned, a thrown request is cached as null, an answer that is
\* not a file (a directory listing) gives null without being cached.
getTextFile(c, owner, repo, path, ref) ==
    LET key == cacheKey(owner, repo, path, ref)
        rk == <<owner, repo, ref, path>>
    IN IF key \in DOMAIN c
       THEN [text |-> c[key], cache |-> c]
       ELSE IF rk \notin DOMAIN remoteContent
       THEN [text |-> Null, cache |-> CachePut(c, key, Null)]
       ELSE IF remoteContent[rk].kind = "file"
       THEN [text |-> remoteContent[rk].text,
             cache |-> CachePut(c, key, remoteContent[rk].text)]
       ELSE [text |-> Null, cache |-> c]

\* ---------------------------------------------------------------------
\* scripts/lib/requirements.ts: resolvePinnedVersion
\* ---------------------------------------------------------------------
NoMatch == [ok |-> FALSE, cap |-> ""]

\* the null result of resolvePinnedVersion, and a found pin
NoPin == [found |-> FALSE, version |-> Null, rawSpec |-> Null]
Pin(version, rawSpec) == [found |-> TRUE, version |-> version, rawSpec |-> rawSpec]

\* position after the optional "s" of https? and the "://", 0 if absent
AfterScheme(t, g) ==
    IF ~LitAtCI(t, g, "git+http") THEN 0
    ELSE LET q == IF LitAtCI(t, g + 8, "s") THEN g + 9 ELSE g + 8
         IN IF LitAtCI(t, q, "://") THEN q + 3 ELSE 0

\* ^name\s*={k}\s*([^\s;#]+)
PinMatchWith(t, name, k) ==
    LET p1 == ScanWhile(t, Len(name) + 1, Ws)
        p2 == ScanWhile(t, p1 + k, Ws)
        p3 == ScanUntil(t, p2, Ws \cup {";", "#"})
    IN IF /\ LitAtCI(t, 1, name)
          /\ p1 + k - 1 <= Len(t)
          /\ \A i \in p1..(p1 + k - 1) : Ch(t, i) = "="
          /\ p3 > p2
       THEN [ok |-> TRUE, cap |-> SubSeq(t, p2, p3 - 1)]
       ELSE NoMatch

\* ^name\s*={2,3}\s*([^\s;#]+): three "=" are tried before two
pinMatch(t, name) ==
    LET m3 == PinMatchWith(t, name, 3)
    IN IF m3.ok THEN m3 ELSE PinMatchWith(t, name, 2)

\* git\+https?://[^@]+@([^#]+)#egg=name, starting at position g
VcsAt(t, g, name) ==
    LET a == AfterScheme(t, g)
        at == ScanUntil(t, a, {"@"})
        h == ScanUntil(t, at + 1, {"#"})
    IN IF /\ a > 0
          /\ at > a /\ at <= Len(t)
          /\ h > at + 1 /\ h <= Len(t)
          /\ LitAtCI(t, h, "#egg=" \o name)
       THEN [ok |-> TRUE, cap |-> SubSeq(t, at + 1, h - 1)]
       ELSE NoMatch

\* the unanchored search: the leftmost start position that matches
vcsMatch(t, name) ==
    LET starts == { g \in 1..Len(t) : VcsAt(t, g, name).ok }
    IN IF starts = {} THEN NoMatch ELSE VcsAt(t, Min(starts), name)

\* ^name\s*@\s*git\+https?://[^@]+@([^\s;#]+)
pep440Match(t, name) ==
    LET p1 == ScanWhile(t, Len(name) + 1, Ws)
        p2 == ScanWhile(t, p1 + 1, Ws)
        a == AfterScheme(t, p2)
        at == ScanUntil(t, a, {"@"})
        p3 == ScanUntil(t, at + 1, Ws \cup {";", "#"})
    IN IF /\ LitAtCI(t, 1, name)
          /\ p1 <= Len(t) /\ Ch(t, p1) = "@"
          /\ a > 0
          /\ at > a /\ at <= Len(t)
          /\ p3 > at + 1
       THEN [ok |-> TRUE, cap |-> SubSeq(t, at + 1, p3 - 1)]
       ELSE NoMatch

\* mutant: the direct-reference pattern tried before the VCS pattern
MatchLine_pepFirst(trimmed, name) ==
    LET pinM == pinMatch(trimmed, name)
        vcsM == vcsMatch(trimmed, name)
        pepM == pep440Match(trimmed, name)
    IN IF pinM.ok THEN Pin(pinM.cap, Null)
       ELSE IF pepM.ok THEN Pin(StripLeadingV(pepM.cap), trimmed)
       ELSE IF vcsM.ok THEN Pin(StripLeadingV(vcsM.cap), trimmed)
       ELSE NoPin

\* the body of the line loop for one trimmed line: the pin it returns,
\* or NoPin when none of the three patterns matches
MatchLine(trimmed, name) ==
    LET pinM == pinMatch(trimmed, name)
        vcsM == vcsMatch(trimmed, name)
        pepM == pep440Match(trimmed, name)
    IN IF pinM.ok THEN Pin(pinM.cap, Null)
       ELSE IF vcsM.ok THEN Pin(StripLeadingV(vcsM.cap), trimmed)
       ELSE IF pepM.ok THEN Pin(StripLeadingV(pepM.cap), trimmed)
       ELSE NoPin

RECURSIVE PinLoop(_, _, _)
PinLoop(lines, i, name) ==
    IF i > Len(lines) THEN NoPin
    ELSE LET trimmed == trim(lines[i])
             m == MatchLine(trimmed, name)
         IN IF startsWith(trimmed, "#") \/ trimmed = ""
            THEN PinLoop(lines, i + 1, name)
            ELSE IF m.found THEN m
            ELSE PinLoop(lines, i + 1, name)

BaseTxtPath == "requirements/edx/base.txt"

resolvePinnedVersion(c, platformRef, packageName) ==
    LET f == getTextFile(c, "openedx", "edx-platform", BaseTxtPath, platformRef)
    IN IF f.text = Null \/ f.text = ""
       THEN [pin |-> NoPin, cache |-> f.cache]
       ELSE [pin |-> PinLoop(split(f.text, "\n"), 1, packageName), cache |-> f.cache]

\* ---------------------------------------------------------------------
\* scripts/lib/requirements.ts: cleanVersion
\* ---------------------------------------------------------------------
RangeOps == {"^", "~", ">", "=", "<"}

\* replace(/[^\d]/g, '')
RECURSIVE KeepDigits(_)
KeepDigits(s) ==
    IF s = "" THEN ""
    ELSE (IF Ch(s, 1) \in Digits THEN Ch(s, 1) ELSE "") \o KeepDigits(SubSeq(s, 2, Len(s)))

\* parts[i] || '0'
PartOrZero(parts, i) == IF i <= Len(parts) /\ parts[i] # "" THEN parts[i] ELSE "0"

cleanVersion(versionSpec) ==
    LET cleaned == trim(SubSeq(versionSpec, ScanWhile(versionSpec, 1, RangeOps \cup Ws),
                               Len(versionSpec)))
        parts == split(cleaned, ".")
        major == PartOrZero(parts, 1)
        minor == PartOrZero(parts, 2)
        patch == KeepDigits(PartOrZero(parts, 3))
    IN major \o "." \o minor \o "." \o patch

\* ---------------------------------------------------------------------
\* scripts/collect-plugins.ts: extractDescription (collect-components.ts
\* holds an identical private copy), parsePluginSlot
\* ---------------------------------------------------------------------
DescMax == 200

\* devLimit of a --dev run
DevLimit == 3

\* line.replace(/^#+\s*/, '')
StripHashes(line) ==
    SubSeq(line, ScanWhile(line, ScanWhile(line, 1, {"#"}), Ws), Len(line))

RECURSIVE DescLoop(_, _, _)
DescLoop(lines, i, descTitleFound) ==
    IF i > Len(lines) THEN ""
    ELSE LET line == trim(lines[i])
         IN IF startsWith(line, "#") /\ toLowerCase(trim(StripHashes(line))) = "description"
            THEN DescLoop(lines, i + 1, TRUE)
            ELSE IF descTitleFound /\ line # ""
            THEN line
            ELSE DescLoop(lines, i + 1, descTitleFound)

\* mutant: the description is returned whole
extractDescription_noSlice(content) == DescLoop(split(content, "\n"), 1, FALSE)

extractDescription(content) == slice0(DescLoop(split(content, "\n"), 1, FALSE), DescMax)

\* a position where ^ matches under flag m
IsLineStart(text, p) == p = 1 \/ Ch(text, p - 1) \in {"\n", "\r"}

\* /^#+\s+examples?/im.test(text)
HasExamples(text) ==
    \E p \in 1..Len(text) :
        LET h == ScanWhile(text, p, {"#"})
            w == ScanWhile(text, h, Ws)
        IN /\ IsLineStart(text, p)
           /\ h > p
           /\ w > h
           /\ LitAtCI(text, w, "example")

\* slotPath.split('/').pop() || 'Unknown'
SlotIdOf(slotPath) ==
    LET segs == split(slotPath, "/")
    IN IF segs[Len(segs)] # "" THEN segs[Len(segs)] ELSE "Unknown"

Placeholder(slotId, ownerName) == "# " \o slotId \o "\n\nPlugin slot for " \o ownerName

parsePluginSlot(c, repoName, mfeName, repoUrl, slotPath, ref) ==
    LET slotId == SlotIdOf(slotPath)
        f == getTextFile(c, "openedx", repoName, slotPath \o "/README.md", ref)
        readmePresent == f.text # Null
        readmeText == IF readmePresent THEN f.text ELSE Placeholder(slotId, mfeName)
        treeRef == IF ref = Null \/ ref = "" THEN "master" ELSE ref
    IN [slot |-> [id |-> slotId,
                  mfeId |-> repoName,
                  mfeName |-> mfeName,
                  filePath |-> slotPath \o "/README.md",
                  description |-> extractDescription(readmeText),
                  readmeContent |-> IF readmePresent THEN readmeText ELSE Null,
                  sourceUrl |-> repoUrl \o "/tree/" \o treeRef \o "/" \o slotPath,
                  readmePresent |-> readmePresent,
                  hasExamples |-> HasExamples(readmeText)],
        cache |-> f.cache]

\* ---------------------------------------------------------------------
\* scripts/collect-components.ts: parseComponentPluginSlot
\* ---------------------------------------------------------------------
parseComponentPluginSlot(c, componentId, componentName, repositoryUrl, slotPath, ref) ==
    LET slotId == SlotIdOf(slotPath)
        f == getTextFile(c, "openedx", componentId, slotPath \o "/README.md", ref)
        readmePresent == f.text # Null
        readmeText == IF readmePresent THEN f.text ELSE Placeholder(slotId, componentName)
    IN [slot |-> [id |-> slotId,
                  componentId |-> componentId,
                  componentName |-> componentName,
                  filePath |-> slotPath \o "/README.md",
                  description |-> extractDescription(readmeText),
                  readmeContent |-> IF readmePresent THEN readmeText ELSE Null,
                  sourceUrl |-> repositoryUrl \o "/tree/" \o ref \o "/" \o slotPath,
                  readmePresent |-> readmePresent,
                  hasExamples |-> HasExamples(readmeText)],
        cache |-> f.cache]

\* ---------------------------------------------------------------------
\* scripts/lib/github.ts: listDir
\* ---------------------------------------------------------------------
NoDir == [ok |-> FALSE, items |-> <<>>]

\* listDir: cache hit; else repos.getContent: an array answer is cached and
\* returned, a thrown request is cached as null, an answer that is not an
\* array (a file) gives null without being cached.
listDir(c, owner, repo, path, ref) ==
    LET key == cacheKey(owner, repo, path, ref) \o ":dir"
        rk == <<owner, repo, ref, path>>
    IN IF key \in DOMAIN c
       THEN [entries |-> c[key], cache |-> c]
       ELSE IF rk \notin DOMAIN remoteContent
       THEN [entries |-> NoDir, cache |-> CachePut(c, key, NoDir)]
       ELSE IF remoteContent[rk].kind = "dir"
       THEN LET es == [ok |-> TRUE, items |-> remoteContent[rk].entries]
            IN [entries |-> es, cache |-> CachePut(c, key, es)]
       ELSE [entries |-> NoDir, cache |-> c]

\* ---------------------------------------------------------------------
\* scripts/lib/requirements.ts: resolveLibRefFromVersion,
\* resolveComponentVersions
\* ---------------------------------------------------------------------
\* mutant: the bare version is probed before the v-prefixed one
RECURSIVE LibRefLoop_bareFirst(_, _, _, _, _)
LibRefLoop_bareFirst(c, repo, cands, i, probes) ==
    IF i > Len(cands)
    THEN [ref |-> Null, cache |-> c, probes |-> probes]
    ELSE LET cand == cands[Len(cands) + 1 - i]
             r == RefExists(c, "openedx", repo, cand)
             p == Append(probes, [ref |-> cand, ans |-> r.ans])
         IN IF r.ans THEN [ref |-> cand, cache |-> r.cache, probes |-> p]
            ELSE LibRefLoop_bareFirst(r.cache, repo, cands, i + 1, p)

\* probes: the refs handed to refExists so far, with their answers
RECURSIVE LibRefLoop(_, _, _, _, _)
LibRefLoop(c, repo, cands, i, probes) ==
    IF i > Len(cands)
    THEN [ref |-> Null, cache |-> c, probes |-> probes]
    ELSE LET r == RefExists(c, "openedx", repo, cands[i])
             p == Append(probes, [ref |-> cands[i], ans |-> r.ans])
         IN IF r.ans THEN [ref |-> cands[i], cache |-> r.cache, probes |-> p]
            ELSE LibRefLoop(r.cache, repo, cands, i + 1, p)

resolveLibRefFromVersion(c, repo, version) ==
    IF version = Null \/ version = ""
    THEN [ref |-> Null, cache |-> c, probes |-> <<>>]
    ELSE LibRefLoop(c, repo, << "v" \o version, version >>, 1, <<>>)

NoDeps == [k \in {} |-> ""]

\* JSON.parse on the package.json documents of the modelled repositories;
\* any other text is not JSON and makes it throw
JSONparse(text) ==
    CASE text = "{\"dependencies\":{\"@edx/frontend-component-header\":\"^1.2.3\"}}" ->
            [ok |-> TRUE,
             dependencies |-> ("@edx/frontend-component-header" :> "^1.2.3"),
             devDependencies |-> NoDeps, peerDependencies |-> NoDeps]
      [] text = "{\"dependencies\":{\"@openedx/frontend-component-header\":\"1.2.3\"},\"peerDependencies\":{\"@openedx/frontend-component-footer\":\"~14.0\"}}" ->
            [ok |-> TRUE,
             dependencies |-> ("@openedx/frontend-component-header" :> "1.2.3"),
             devDependencies |-> NoDeps,
             peerDependencies |-> ("@openedx/frontend-component-footer" :> "~14.0")]
      [] text = "{\"name\":\"mfe\"}" ->
            [ok |-> TRUE, dependencies |-> NoDeps,
             devDependencies |-> NoDeps, peerDependencies |-> NoDeps]
      [] OTHER -> [ok |-> FALSE]

NoVersions == [found |-> FALSE, headerVersion |-> Null, footerVersion |-> Null]

\* dependencies[a] || dependencies[b]
DepOr(deps, a, b) ==
    IF a \in DOMAIN deps /\ deps[a] # "" THEN deps[a]
    ELSE IF b \in DOMAIN deps /\ deps[b] # "" THEN deps[b]
    ELSE Null

\* mutant: the first group that declares a package wins
MergedDependencies_runtimeWins(packageJson) ==
    packageJson.dependencies @@ packageJson.devDependencies
        @@ packageJson.peerDependencies

\* { ...dependencies, ...devDependencies, ...peerDependencies }: a later
\* spread overwrites the keys of an earlier one
MergedDependencies(packageJson) ==
    packageJson.peerDependencies @@ packageJson.devDependencies
        @@ packageJson.dependencies

\* the part of resolveComponentVersions after JSON.parse
ComponentVersionsOf(packageJson) ==
    LET dependencies == MergedDependencies(packageJson)
        headerVersion == DepOr(dependencies, "@openedx/frontend-component-header",
                                             "@edx/frontend-component-header")
        footerVersion == DepOr(dependencies, "@openedx/frontend-component-footer",
                                             "@edx/frontend-component-footer")
    IN [found |-> TRUE,
        headerVersion |-> IF headerVersion # Null THEN cleanVersion(headerVersion)
                          ELSE Null,
        footerVersion |-> IF footerVersion # Null THEN cleanVersion(footerVersion)
                          ELSE Null]

resolveComponentVersions(c, mfeRef, mfeRepo) ==
    LET f == getTextFile(c, "openedx", mfeRepo, "package.json", mfeRef)
        packageJson == JSONparse(f.text)
    IN IF f.text = Null \/ f.text = "" \/ ~packageJson.ok
       THEN [versions |-> NoVersions, cache |-> f.cache]
       ELSE [versions |-> ComponentVersionsOf(packageJson), cache |-> f.cache]

\* ---------------------------------------------------------------------
\* scripts/collect-components.ts: collectComponent
\* ---------------------------------------------------------------------
NoComponentData == [found |-> FALSE]

RECURSIVE ComponentSlotLoop(_, _, _, _, _, _, _)
ComponentSlotLoop(c, componentId, componentName, repository, ref, items, acc) ==
    IF items = <<>>
    THEN [pluginSlots |-> acc, cache |-> c]
    ELSE IF Head(items).type = "dir"
    THEN LET r == parseComponentPluginSlot(c, componentId, componentName, repository,
                                           Head(items).path, ref)
         IN ComponentSlotLoop(r.cache, componentId, componentName, repository, ref,
                              Tail(items), Append(acc, r.slot))
    ELSE ComponentSlotLoop(c, componentId, componentName, repository, ref, Tail(items), acc)

collectComponent(c, componentId, componentName, ref, repository, owner) ==
    LET d == listDir(c, owner, componentId, "src/plugin-slots", ref)
        r == ComponentSlotLoop(d.cache, componentId, componentName, repository, ref,
                               d.entries.items, <<>>)
    IN IF ~d.entries.ok
       THEN [data |-> NoComponentData, cache |-> d.cache]
       ELSE IF Len(r.pluginSlots) = 0
       THEN [data |-> NoComponentData, cache |-> r.cache]
       ELSE [data |-> [found |-> TRUE,
                       id |-> componentId,
                       name |-> componentName,
                       version |-> StripLeadingV(ref),
                       repository |-> repository,
                       owner |-> owner,
                       pluginSlots |-> r.pluginSlots],
             cache |-> r.cache]

\* ---------------------------------------------------------------------
\* scripts/collect-plugins.ts: formatName, collectPlugins
\* ---------------------------------------------------------------------
UpperCh(c) ==
    IF \E i \in 1..26 : Ch(LowerAlpha, i) = c
    THEN Ch(UpperAlpha, CHOOSE i \in 1..26 : Ch(LowerAlpha, i) = c)
    ELSE c

Capitalize(word) ==
    IF word = "" THEN "" ELSE UpperCh(Ch(word, 1)) \o SubSeq(word, 2, Len(word))

formatName(repoName) ==
    LET bare == IF startsWith(repoName, "frontend-app-")
                THEN SubSeq(repoName, 14, Len(repoName))
                ELSE IF startsWith(repoName, "frontend-component-")
                THEN SubSeq(repoName, 20, Len(repoName))
                ELSE repoName
        words == split(bare, "-")
    IN join([i \in 1..Len(words) |-> Capitalize(words[i])], " ")

NoComponentInfo == [present |-> FALSE]

\* the record pushed to pluginSlots for a slot of the header or the footer
ComponentSlotOf(slot, repoName, type, componentVersion) ==
    [id |-> slot.id,
     mfeId |-> repoName,
     mfeName |-> formatName(repoName),
     filePath |-> slot.filePath,
     description |-> slot.description,
     readmeContent |-> slot.readmeContent,
     sourceUrl |-> slot.sourceUrl,
     readmePresent |-> slot.readmePresent,
     hasExamples |-> slot.hasExamples,
     type |-> type,
     componentVersion |-> componentVersion]

\* the header (footer) block of collectPlugins: cached component data, or
\* collectComponent at tag v<version>; st carries cache, componentCache and
\* pluginSlots, info is what is stored on the MFE, called tells whether
\* collectComponent was called
AttachComponent(st, repoName, type, componentId, componentName, version) ==
    IF version = Null
    THEN [st |-> st, info |-> NoComponentInfo, called |-> FALSE]
    ELSE IF (type \o ":" \o version) \in DOMAIN st.componentCache
    THEN Bind(st.componentCache[type \o ":" \o version], LAMBDA data :
            [st |-> [st EXCEPT !.pluginSlots =
                        st.pluginSlots \o
                        [i \in 1..Len(data.pluginSlots) |->
                            ComponentSlotOf(data.pluginSlots[i], repoName, type, version)]],
             info |-> [present |-> TRUE,
                       id |-> componentId,
                       name |-> componentName,
                       version |-> version,
                       pluginSlotsCount |-> Len(data.pluginSlots)],
             called |-> FALSE])
    ELSE Bind(collectComponent(st.cache, componentId, componentName, "v" \o version,
                               "https://github.com/openedx/" \o componentId, "openedx"),
              LAMBDA r :
                 IF ~r.data.found
                 THEN [st |-> [st EXCEPT !.cache = r.cache], info |-> NoComponentInfo,
                       called |-> TRUE]
                 ELSE [st |-> [st EXCEPT
                                 !.cache = r.cache,
                                 !.componentCache =
                                     CachePut(st.componentCache, type \o ":" \o version, r.data),
                                 !.pluginSlots =
                                     st.pluginSlots \o
                                     [i \in 1..Len(r.data.pluginSlots) |->
                                         ComponentSlotOf(r.data.pluginSlots[i], repoName,
                                                         type, version)]],
                       info |-> [present |-> TRUE,
                                 id |-> componentId,
                                 name |-> componentName,
                                 version |-> version,
                                 pluginSlotsCount |-> Len(r.data.pluginSlots)],
                       called |-> TRUE])

\* mutant: every entry of the listing is taken for a slot
RECURSIVE SlotLoop_anyType(_, _, _, _, _)
SlotLoop_anyType(c, repo, ref, items, acc) ==
    IF items = <<>>
    THEN [pluginSlots |-> acc, cache |-> c]
    ELSE LET r == parsePluginSlot(c, repo.name, formatName(repo.name), repo.html_url,
                                  Head(items).path, ref)
         IN SlotLoop_anyType(r.cache, repo, ref, Tail(items),
                             Append(acc, r.slot @@ [type |-> "mfe"]))

RECURSIVE SlotLoop(_, _, _, _, _)
SlotLoop(c, repo, ref, items, acc) ==
    IF items = <<>>
    THEN [pluginSlots |-> acc, cache |-> c]
    ELSE IF Head(items).type = "dir"
    THEN LET r == parsePluginSlot(c, repo.name, formatName(repo.name), repo.html_url,
                                  Head(items).path, ref)
         IN SlotLoop(r.cache, repo, ref, Tail(items),
                     Append(acc, r.slot @@ [type |-> "mfe"]))
    ELSE SlotLoop(c, repo, ref, Tail(items), acc)

\* the answer of repos.listForOrg for the openedx organisation (one page)
OrgRepo(name) ==
    [name |-> name,
     html_url |-> "https://github.com/openedx/" \o name,
     default_branch |-> "master",
     description |-> "",
     owner |-> "openedx"]

OrgRepos ==
    << OrgRepo("frontend-app-learning"),
       OrgRepo("frontend-component-header"),
       OrgRepo("edx-platform"),
       OrgRepo("frontend-app-account"),
       OrgRepo("frontend-component-footer"),
       OrgRepo("frontend-app-profile"),
       OrgRepo("frontend-app-authn") >>

\* the line that collectComponent writes when it is entered
ComponentLine(componentId, version) ==
    [msg |-> "Collecting plugin slots from", repo |-> componentId,
     ref |-> "v" \o version, items |-> 0]

\* the body of the loop over the repositories, for one repository that
\* passed the name filters; refSlug is the release of opts.refForRepo,
\* Null when the option is absent
ProcessRepo(st, repo, refSlug) ==
    Bind(IF refSlug = Null
         THEN [result |-> repo.default_branch, cache |-> st.cache]
         ELSE resolveMfeRef(st.cache, repo.name, refSlug), LAMBDA rr :
    IF rr.result = Null
    THEN [st EXCEPT !.cache = rr.cache,
                    !.log = Append(st.log, [msg |-> "Skipping (no ref found)",
                                            repo |-> repo.name, ref |-> Null, items |-> 0])]
    ELSE
    Bind(listDir(rr.cache, "openedx", repo.name, "src/plugin-slots", rr.result), LAMBDA d :
    Bind(SlotLoop(d.cache, repo, rr.result, d.entries.items, <<>>), LAMBDA s :
    Bind(resolveComponentVersions(s.cache, rr.result, repo.name), LAMBDA cv :
    Bind(AttachComponent([cache |-> cv.cache,
                          componentCache |-> st.componentCache,
                          pluginSlots |-> st.pluginSlots \o s.pluginSlots],
                         repo.name, "header", "frontend-component-header", "Header",
                         cv.versions.headerVersion), LAMBDA h :
    Bind(AttachComponent(h.st, repo.name, "footer", "frontend-component-footer", "Footer",
                         cv.versions.footerVersion), LAMBDA f :
        [mfes |-> IF Len(s.pluginSlots) > 0
                  THEN Append(st.mfes, [id |-> repo.name,
                                        name |-> formatName(repo.name),
                                        description |-> repo.description,
                                        repository |-> repo.html_url,
                                        owner |-> repo.owner,
                                        pluginSlotsCount |-> Len(s.pluginSlots),
                                        header |-> h.info,
                                        footer |-> f.info])
                  ELSE st.mfes,
         pluginSlots |-> f.st.pluginSlots,
         cache |-> f.st.cache,
         componentCache |-> f.st.componentCache,
         log |-> st.log
                 \o (IF d.entries.ok
                     THEN << [msg |-> "Found plugin-slots directory", repo |-> repo.name,
                              ref |-> rr.result, items |-> Len(d.entries.items)] >>
                     ELSE << >>)
                 \o (IF Len(s.pluginSlots) > 0
                     THEN << [msg |-> "Extracted plugin slots", repo |-> repo.name,
                              ref |-> rr.result, items |-> Len(s.pluginSlots)] >>
                     ELSE << >>)
                 \o (IF h.called
                     THEN << ComponentLine("frontend-component-header",
                                           cv.versions.headerVersion) >>
                     ELSE << >>)
                 \o (IF f.called
                     THEN << ComponentLine("frontend-component-footer",
                                           cv.versions.footerVersion) >>
                     ELSE << >>)]))))))

RECURSIVE RepoLoop(_, _, _, _, _)
RepoLoop(st, repos, i, refSlug, limit) ==
    IF i > Len(repos) THEN st
    ELSE IF /\ ~startsWith(repos[i].name, "frontend-app-")
            /\ ~startsWith(repos[i].name, "frontend-component-")
    THEN RepoLoop(st, repos, i + 1, refSlug, limit)
    ELSE IF repos[i].name \in {"frontend-component-header", "frontend-component-footer"}
    THEN RepoLoop(st, repos, i + 1, refSlug, limit)
    ELSE IF limit # 0 /\ Len(st.mfes) >= limit
    THEN st
    ELSE Bind(ProcessRepo(st, repos[i], refSlug), LAMBDA next :
              RepoLoop(next, repos, i + 1, refSlug, limit))

\* collectPlugins up to the writing of the output: the repositories of the
\* organisation in turn; limit is opts.devLimit, 0 when absent
collectPlugins(c, cc, refSlug, limit) ==
    RepoLoop([mfes |-> <<>>, pluginSlots |-> <<>>, cache |-> c, componentCache |-> cc,
              log |-> <<>>],
             OrgRepos, 1, refSlug, limit)

\* ---------------------------------------------------------------------
\* Specification SpecResolve: resolver calls against a fixed remote
\* ---------------------------------------------------------------------
ResolveSlugs == {"sumac", "teak"}
MfeRepos == {"frontend-app-learning"}
ResolveRepos == {"edx-platform"} \cup MfeRepos

\* The refs that may exist remotely in SpecResolve: the three candidates
\* of "sumac" in both repositories as branches, and for "teak" the lowest
\* candidate as a branch and the middle candidate as a tag.
ResolveBranchUniverse ==
    { <<repo, BRANCH_CANDIDATES("sumac")[i]>> : repo \in ResolveRepos, i \in 1..3 }
    \cup { <<"edx-platform", "release/teak">> }
ResolveTagUniverse == { <<"edx-platform", "release/teak.master">> }

ResolveIdle == /\ rcall = NoCall
               /\ ncalls = 0

FnIdle == /\ finput = Null
          /\ fcall = NoCall

NoContent == [k \in {} |-> Null]

PlugIdle == /\ componentCache = EmptyCache
            /\ files = NoFiles
            /\ log = <<>>

OrchIdle == /\ pc = "idle"
            /\ argv = [release |-> Null, dev |-> FALSE, dryRun |-> FALSE]
            /\ relIdx = 0
            /\ rel = NoRel
            /\ manifestEntries = <<>>

InitResolve ==
    /\ remoteBranches \in SUBSET ResolveBranchUniverse
    /\ remoteTags \in SUBSET ResolveTagUniverse
    /\ remoteContent = NoContent
    /\ cache = EmptyCache
    /\ ResolveIdle
    /\ PlugIdle
    /\ OrchIdle
    /\ FnIdle

CallResolveEdxPlatformRef ==
    \E slug \in ResolveSlugs :
        LET r == resolveEdxPlatformRef(cache, slug) IN
        /\ ncalls < MaxCalls
        /\ ncalls' = ncalls + 1
        /\ cache' = r.cache
        /\ rcall' = [fn |-> "resolveEdxPlatformRef", repo |-> "edx-platform",
                     slug |-> slug, result |-> r.result, probes |-> r.probes]
        /\ UNCHANGED <<plugVars, orchVars, remoteVars, fnVars>>

CallResolveMfeRef ==
    \E repoName \in MfeRepos, slug \in ResolveSlugs :
        LET r == resolveMfeRef(cache, repoName, slug) IN
        /\ ncalls < MaxCalls
        /\ ncalls' = ncalls + 1
        /\ cache' = r.cache
        /\ rcall' = [fn |-> "resolveMfeRef", repo |-> repoName,
                     slug |-> slug, result |-> r.result, probes |-> r.probes]
        /\ UNCHANGED <<plugVars, orchVars, remoteVars, fnVars>>

\* clearCache()
CallClearCache ==
    /\ cache # EmptyCache
    /\ cache' = EmptyCache
    /\ UNCHANGED <<plugVars, orchVars, remoteVars, resolveVars, fnVars>>

NextResolve ==
    \/ CallResolveEdxPlatformRef
    \/ CallResolveMfeRef
    \/ CallClearCache

SpecResolve == InitResolve /\ [][NextResolve]_vars

\* ---------------------------------------------------------------------
\* C1: a resolver call returns the first of open-release/{slug}.master,
\* release/{slug}.master, release/{slug} whose existence check answered
\* true (which is the first that exists remotely as a branch or a tag),
\* null when none answered true, and never a candidate whose check
\* answered false.
\* ---------------------------------------------------------------------
ClaimCandidates(slug) ==
    << "open-release/" \o slug \o ".master",
       "release/" \o slug \o ".master",
       "release/" \o slug >>

ExistsRemotely(repo, ref) == <<repo, ref>> \in remoteBranches \cup remoteTags

AnsweredTrue(ref) == \E i \in DOMAIN rcall.probes :
                        rcall.probes[i].ref = ref /\ rcall.probes[i].ans
AnsweredFalse(ref) == \E i \in DOMAIN rcall.probes :
                        rcall.probes[i].ref = ref /\ ~rcall.probes[i].ans

C1_FirstExistingCandidate ==
    rcall.fn \in {"resolveEdxPlatformRef", "resolveMfeRef"} =>
        LET cs == ClaimCandidates(rcall.slug)
            hits == { k \in 1..3 : ExistsRemotely(rcall.repo, cs[k]) }
        IN /\ hits = {} => rcall.result = Null
           /\ hits # {} =>
                \E k \in hits : /\ \A j \in hits : k <= j
                                /\ rcall.result = cs[k]
                                /\ AnsweredTrue(cs[k])
                                /\ \A j \in 1..(k - 1) : AnsweredFalse(cs[j])
           /\ rcall.result # Null => ~AnsweredFalse(rcall.result)

\* only the lowest-priority candidate exists and exactly that one is returned
C1_Witness ==
    /\ rcall.fn = "resolveMfeRef"
    /\ rcall.slug = "sumac"
    /\ ~ExistsRemotely(rcall.repo, "open-release/sumac.master")
    /\ ~ExistsRemotely(rcall.repo, "release/sumac.master")
    /\ rcall.result = "release/sumac"

\* ---------------------------------------------------------------------
\* Specification SpecPin: resolvePinnedVersion on requirements documents
\* built from the lines of PinLines
\* ---------------------------------------------------------------------
PinLines ==
    { "openedx-filters==5.1.0",
      "openedx-filters===v5.1.0",
      "openedx-events==9.0.0",
      "# openedx-filters==0.0.1",
      "   ",
      "OpenEdX-Filters == 6.0.0  # via -r x",
      "openedx-filters-extra==7.0",
      "-e git+https://github.com/openedx/openedx-filters.git@v2.0.0#egg=openedx-filters",
      "openedx-events @ git+https://example/repo@v9.0.0#egg=openedx-events",
      "openedx-filters @ git+https://example/repo@v3.1.0",
      "git+https://h/r@v4.0#egg=openedx-filters==4.0",
      "openedx-filters==8.0 git+https://h/r@v8.1#egg=openedx-filters",
      "openedx-filters @ git+https://h/r@v1.5;x #egg=openedx-filters" }

PinPackages == {"openedx-filters", "openedx-events"}

PinDocs == { join(ls, "\n") : ls \in UNION { [1..n -> PinLines] : n \in 0..MaxPinLines } }

PinRef == "release/sumac"
PinKey == <<"openedx", "edx-platform", PinRef, BaseTxtPath>>

InitPin ==
    /\ remoteBranches = {}
    /\ remoteTags = {}
    /\ \/ remoteContent = NoContent
       \/ \E d \in PinDocs : remoteContent = (PinKey :> [kind |-> "file", text |-> d])
    /\ cache = EmptyCache
    /\ ResolveIdle
    /\ PlugIdle
    /\ OrchIdle
    /\ FnIdle

CallResolvePinnedVersion ==
    \E pkg \in PinPackages :
        LET r == resolvePinnedVersion(cache, PinRef, pkg) IN
        /\ fcall = NoCall
        /\ fcall' = [fn |-> "resolvePinnedVersion", pkg |-> pkg, pin |-> r.pin]
        /\ UNCHANGED finput
        /\ cache' = r.cache
        /\ UNCHANGED <<plugVars, orchVars, remoteVars, resolveVars>>

NextPin == CallResolvePinnedVersion

SpecPin == InitPin /\ [][NextPin]_vars

\* the requirements document resolvePinnedVersion reads, Null when absent
PinContent == IF PinKey \in DOMAIN remoteContent THEN remoteContent[PinKey].text ELSE Null

PinDocLines == IF PinContent = Null THEN <<>> ELSE split(PinContent, "\n")

endsWithCI(s, lit) == Len(s) >= Len(lit) /\ LitAtCI(s, Len(s) - Len(lit) + 1, lit)

\* the VCS notation as the claim words it (the line ends in #egg=name),
\* and as any line holding git+http(s)://...@ver#egg=name
IsVcsEndingInEgg(t, name) == vcsMatch(t, name).ok /\ endsWithCI(t, "#egg=" \o name)
IsVcsHoldingEgg(t, name) == vcsMatch(t, name).ok

\* the text captured on line t by the first notation, in the order
\* exact-equality, VCS URL, direct reference, that matches it
FirstNotationCapture(t, name, vcsOk) ==
    IF pinMatch(t, name).ok THEN pinMatch(t, name).cap
    ELSE IF vcsOk THEN vcsMatch(t, name).cap
    ELSE pep440Match(t, name).cap

\* C2 as stated, with the VCS notation required to end in #egg=name: the
\* pin is the one of the first non-blank, non-comment line matching a
\* notation (exact-equality, then VCS URL, then direct reference), and
\* there is no pin when the document is absent or no line matches.
C2_Original_FirstLineEndingInEgg ==
    fcall.fn = "resolvePinnedVersion" =>
        LET name == fcall.pkg
            lines == PinDocLines
            t(i) == trim(lines[i])
            elig == { i \in DOMAIN lines :
                        /\ t(i) # "" /\ ~startsWith(t(i), "#")
                        /\ \/ pinMatch(t(i), name).ok
                           \/ IsVcsEndingInEgg(t(i), name)
                           \/ pep440Match(t(i), name).ok }
        IN IF elig = {} THEN ~fcall.pin.found
           ELSE LET cap == FirstNotationCapture(t(Min(elig)), name,
                                                IsVcsEndingInEgg(t(Min(elig)), name))
                IN /\ fcall.pin.found
                   /\ fcall.pin.version \in {cap, StripLeadingV(cap)}

\* C2 (amended): the same with the VCS notation being any line holding
\* git+http(s)://...@version#egg=name, whatever follows the name.
C2_FirstMatchingLineWins ==
    fcall.fn = "resolvePinnedVersion" =>
        LET name == fcall.pkg
            lines == PinDocLines
            t(i) == trim(lines[i])
            elig == { i \in DOMAIN lines :
                        /\ t(i) # "" /\ ~startsWith(t(i), "#")
                        /\ \/ pinMatch(t(i), name).ok
                           \/ IsVcsHoldingEgg(t(i), name)
                           \/ pep440Match(t(i), name).ok }
        IN IF elig = {} THEN ~fcall.pin.found
           ELSE LET cap == FirstNotationCapture(t(Min(elig)), name,
                                                IsVcsHoldingEgg(t(Min(elig)), name))
                IN /\ fcall.pin.found
                   /\ fcall.pin.version \in {cap, StripLeadingV(cap)}

\* a comment line is skipped and the line openedx-filters==5.1.0 gives 5.1.0
C2_Witness ==
    /\ fcall.fn = "resolvePinnedVersion"
    /\ fcall.pkg = "openedx-filters"
    /\ PinContent = "# openedx-filters==0.0.1\nopenedx-filters==5.1.0"
    /\ fcall.pin.found
    /\ fcall.pin.version = "5.1.0"

\* C3: whichever notation matched, the version returned is the captured
\* version text without its leading v.
C3_VPrefixStrippedInEveryNotation ==
    (fcall.fn = "resolvePinnedVersion" /\ fcall.pin.found) =>
        LET name == fcall.pkg
            lines == PinDocLines
            t(i) == trim(lines[i])
            elig == { i \in DOMAIN lines :
                        /\ t(i) # "" /\ ~startsWith(t(i), "#")
                        /\ \/ pinMatch(t(i), name).ok
                           \/ vcsMatch(t(i), name).ok
                           \/ pep440Match(t(i), name).ok }
            cap == FirstNotationCapture(t(Min(elig)), name, vcsMatch(t(Min(elig)), name).ok)
        IN fcall.pin.version = StripLeadingV(cap)

\* ---------------------------------------------------------------------
\* Specification SpecVer: cleanVersion on version strings of a package
\* manifest: a range-operator prefix followed by up to MaxVerLen
\* characters of VerAlphabet
\* ---------------------------------------------------------------------
VerAlphabet == {"1", "2", ".", "x"}
VerPrefixes == {"", "^", "~", ">=", "^ "}
VerBodies == { join(f, "") : f \in UNION { [1..n -> VerAlphabet] : n \in 1..MaxVerLen } }
VersionSpecs == { pre \o body : pre \in VerPrefixes, body \in VerBodies }

InitVer ==
    /\ remoteBranches = {}
    /\ remoteTags = {}
    /\ remoteContent = NoContent
    /\ cache = EmptyCache
    /\ ResolveIdle
    /\ PlugIdle
    /\ OrchIdle
    /\ finput \in VersionSpecs
    /\ fcall = NoCall

CallCleanVersion ==
    /\ fcall = NoCall
    /\ fcall' = [fn |-> "cleanVersion", result |-> cleanVersion(finput)]
    /\ UNCHANGED <<plugVars, orchVars, remoteVars, cache, resolveVars, finput>>

NextVer == CallCleanVersion

SpecVer == InitVer /\ [][NextVer]_vars

\* C10: the normalized version has exactly three dot-separated components,
\* the leading range operators are gone, a missing component is padded
\* with 0, the patch component is a non-empty string of digits, and
\* ^1.2.3, ~1.2 and 1 give 1.2.3, 1.2.0 and 1.0.0.
C10_ThreeComponentsDigitPatch ==
    fcall.fn = "cleanVersion" =>
        LET parts == split(fcall.result, ".")
        IN /\ Len(parts) = 3
           /\ parts[1] # "" /\ parts[2] # ""
           /\ Ch(parts[1], 1) \notin RangeOps
           /\ parts[3] # ""
           /\ \A i \in 1..Len(parts[3]) : Ch(parts[3], i) \in Digits
           /\ finput = "^1.2.3" => fcall.result = "1.2.3"
           /\ finput = "~1.2" => fcall.result = "1.2.0"
           /\ finput = "1" => fcall.result = "1.0.0"

\* ---------------------------------------------------------------------
\* Specification SpecSlot: extractDescription, parsePluginSlot and
\* parseComponentPluginSlot on README texts built from ReadmeLines
\* ---------------------------------------------------------------------
RECURSIVE Repeat(_, _)
Repeat(c, n) ==
    IF n = 0 THEN ""
    ELSE IF n % 2 = 1 THEN c \o Repeat(c, n - 1)
    ELSE LET half == Repeat(c, n \div 2) IN half \o half

LongLine == Repeat("a", DescMax + 50)

ReadmeLines ==
    { "# Title",
      "## Description",
      "### DESCRIPTION",
      "#description",
      "",
      "   ",
      "Line after heading.",
      "  indented text  ",
      "## Examples",
      "## Example usage",
      "  ## Examples",
      "#Examples",
      "#",
      "examples follow",
      LongLine }

ReadmeDocs == { join(ls, "\n") : ls \in UNION { [1..n -> ReadmeLines] : n \in 0..MaxReadmeLines } }

SlotRepo == "frontend-app-learning"
SlotRepoUrl == "https://github.com/openedx/frontend-app-learning"
SlotRef == "release/sumac"
SlotPaths == {"src/plugin-slots/CourseSlot", "src/plugin-slots/Examples",
              "src/plugin-slots/Description"}
ComponentId == "frontend-component-header"
ComponentUrl == "https://github.com/openedx/frontend-component-header"
ComponentRef == "v1.2.3"

ReadmeKeys ==
    { <<"openedx", SlotRepo, SlotRef, sp \o "/README.md">> : sp \in SlotPaths }
    \cup { <<"openedx", ComponentId, ComponentRef, sp \o "/README.md">> : sp \in SlotPaths }

InitSlot ==
    /\ remoteBranches = {}
    /\ remoteTags = {}
    /\ cache = EmptyCache
    /\ ResolveIdle
    /\ PlugIdle
    /\ OrchIdle
    /\ fcall = NoCall
    /\ \/ /\ finput = Null
          /\ remoteContent = NoContent
       \/ \E d \in ReadmeDocs :
            /\ finput = d
            /\ remoteContent = [k \in ReadmeKeys |-> [kind |-> "file", text |-> d]]

CallExtractDescription ==
    /\ fcall = NoCall
    /\ finput # Null
    /\ fcall' = [fn |-> "extractDescription", result |-> extractDescription(finput)]
    /\ UNCHANGED <<plugVars, orchVars, remoteVars, cache, resolveVars, finput>>

CallParsePluginSlot ==
    \E sp \in SlotPaths :
        LET r == parsePluginSlot(cache, SlotRepo, "Learning", SlotRepoUrl, sp, SlotRef) IN
        /\ fcall = NoCall
        /\ fcall' = [fn |-> "parsePluginSlot", owner |-> "Learning", slotPath |-> sp,
                     slot |-> r.slot]
        /\ cache' = r.cache
        /\ UNCHANGED <<plugVars, orchVars, remoteVars, resolveVars, finput>>

CallParseComponentPluginSlot ==
    \E sp \in SlotPaths :
        LET r == parseComponentPluginSlot(cache, ComponentId, "Header", ComponentUrl,
                                          sp, ComponentRef) IN
        /\ fcall = NoCall
        /\ fcall' = [fn |-> "parseComponentPluginSlot", owner |-> "Header", slotPath |-> sp,
                     slot |-> r.slot]
        /\ cache' = r.cache
        /\ UNCHANGED <<plugVars, orchVars, remoteVars, resolveVars, finput>>

NextSlot ==
    \/ CallExtractDescription
    \/ CallParsePluginSlot
    \/ CallParseComponentPluginSlot

SpecSlot == InitSlot /\ [][NextSlot]_vars

\* ---------------------------------------------------------------------
\* Claims C7 and C9 (checked under SpecSlot)
\* ---------------------------------------------------------------------
\* a line that, ignoring surrounding whitespace, is a run of # followed
\* by a text belonging to texts (letter case ignored)
IsHeadingWithText(line, texts) ==
    LET t == trim(line)
    IN \E k \in 1..Len(t) :
          /\ \A i \in 1..k : Ch(t, i) = "#"
          /\ toLowerCase(trim(SubSeq(t, k + 1, Len(t)))) \in texts

DescHeadings(lines) == { i \in 1..Len(lines) : IsHeadingWithText(lines[i], {"description"}) }

NonBlank(lines, i) == trim(lines[i]) # ""

SlotText ==
    IF fcall.slot.readmePresent
    THEN fcall.slot.readmeContent
    ELSE Placeholder(fcall.slot.id, fcall.owner)

IsSlotCall == fcall.fn \in {"parsePluginSlot", "parseComponentPluginSlot"}

\* C9 as stated: hasExamples is true exactly when some line of the text is a
\* heading whose text is "example" or "examples", letter case ignored.
C9_Original_HeadingTextIsExamples ==
    IsSlotCall =>
        LET lines == split(SlotText, "\n")
        IN fcall.slot.hasExamples <=>
              \E i \in 1..Len(lines) :
                 /\ startsWith(lines[i], "#")
                 /\ IsHeadingWithText(lines[i], {"example", "examples"})

C9_Witness ==
    /\ IsSlotCall
    /\ fcall.slot.readmePresent
    /\ fcall.slot.readmeContent = "# Title\n## Example usage"
    /\ fcall.slot.hasExamples

\* ---------------------------------------------------------------------
\* Specification SpecPlugins: one call of collectPlugins against a remote
\* whose frontend-app-learning tree varies (listing of src/plugin-slots,
\* READMEs of the slots, package.json) and whose other trees are fixed
\* ---------------------------------------------------------------------
DirEntry(type, name) == [type |-> type, name |-> name, path |-> "src/plugin-slots/" \o name]

EntrySeq ==
    << DirEntry("dir", "CourseSlot"),
       DirEntry("dir", "Examples"),
       DirEntry("file", "FooterSlot"),
       DirEntry("file", "README.md") >>

RECURSIVE Pick(_, _, _)
Pick(seq, S, i) ==
    IF i > Len(seq) THEN <<>>
    ELSE (IF i \in S THEN <<seq[i]>> ELSE <<>>) \o Pick(seq, S, i + 1)

DirAnswer(entries) == [kind |-> "dir", entries |-> entries]
FileAnswer(text) == [kind |-> "file", text |-> text]

LearningListings ==
    { DirAnswer(Pick(EntrySeq, S, 1)) : S \in SUBSET (1..Len(EntrySeq)) }
    \cup { FileAnswer("plugin-slots"), [kind |-> "absent"] }

SlotReadme == "# Slot\n\n## Description\nA slot of the learning MFE.\n\n## Examples\n"

PackageJsons ==
    { "{\"dependencies\":{\"@edx/frontend-component-header\":\"^1.2.3\"}}",
      "{\"dependencies\":{\"@openedx/frontend-component-header\":\"1.2.3\"},\"peerDependencies\":{\"@openedx/frontend-component-footer\":\"~14.0\"}}",
      "{\"name\":\"mfe\"}",
      "{not json" }

PlugRefs == {"master", "release/sumac"}

RKey(repo, ref, path) == <<"openedx", repo, ref, path>>

\* one answer under every ref of PlugRefs
AtRefs(repo, path, answer) == [k \in { RKey(repo, ref, path) : ref \in PlugRefs } |-> answer]

FixedTrees ==
    AtRefs("frontend-app-account", "src/plugin-slots",
           DirAnswer(<< DirEntry("dir", "AccountSlot"), DirEntry("file", "index.js") >>))
    @@ AtRefs("frontend-app-account", "package.json",
              FileAnswer("{\"dependencies\":{\"@edx/frontend-component-header\":\"^1.2.3\"}}"))
    @@ AtRefs("frontend-app-profile", "src/plugin-slots",
              DirAnswer(<< DirEntry("dir", "ProfileSlot") >>))
    @@ AtRefs("frontend-app-authn", "src/plugin-slots",
              DirAnswer(<< DirEntry("dir", "AuthnSlot") >>))
    @@ (RKey("frontend-component-footer", "v14.0.0", "src/plugin-slots")
            :> DirAnswer(<< DirEntry("dir", "FooterSlot") >>))

HeaderTree ==
    (RKey("frontend-component-header", "v1.2.3", "src/plugin-slots")
        :> DirAnswer(<< DirEntry("dir", "DesktopHeaderSlot"), DirEntry("file", "index.js") >>))
    @@ (RKey("frontend-component-header", "v1.2.3",
             "src/plugin-slots/DesktopHeaderSlot/README.md")
        :> FileAnswer("# Desktop header\n"))

PlugBranches ==
    { <<"frontend-app-learning", "release/sumac">>,
      <<"frontend-app-account", "release/sumac">>,
      <<"frontend-app-authn", "release/sumac">> }

InitPlugins ==
    /\ remoteBranches = PlugBranches
    /\ remoteTags = {}
    /\ cache = EmptyCache
    /\ ResolveIdle
    /\ PlugIdle
    /\ OrchIdle
    /\ FnIdle
    /\ \E listing \in LearningListings :
       \E readmes \in SUBSET {"CourseSlot"} :
       \E pkg \in PackageJsons \cup {Null} :
       \E header \in BOOLEAN :
          remoteContent =
              (IF listing.kind = "absent" THEN NoContent
               ELSE AtRefs("frontend-app-learning", "src/plugin-slots", listing))
              @@ (IF "CourseSlot" \in readmes
                  THEN AtRefs("frontend-app-learning",
                              "src/plugin-slots/CourseSlot/README.md", FileAnswer(SlotReadme))
                  ELSE NoContent)
              @@ (IF "Examples" \in readmes
                  THEN AtRefs("frontend-app-learning",
                              "src/plugin-slots/Examples/README.md", FileAnswer(SlotReadme))
                  ELSE NoContent)
              @@ (IF pkg = Null THEN NoContent
                  ELSE AtRefs("frontend-app-learning", "package.json", FileAnswer(pkg)))
              @@ (IF header THEN HeaderTree ELSE NoContent)
              @@ FixedTrees

PluginsOutputPath(refSlug) ==
    IF refSlug = Null THEN "data/plugin-slots.json"
    ELSE "data/releases/" \o refSlug \o "/plugin-slots.json"

\* collectPlugins returning normally: the output file is written
CallCollectPlugins ==
    \E refSlug \in {Null, "sumac"} : \E limit \in {0, DevLimit} :
        \E st \in {collectPlugins(cache, componentCache, refSlug, limit)} :
        /\ fcall = NoCall
        /\ fcall' = [fn |-> "collectPlugins", refSlug |-> refSlug, limit |-> limit,
                     outputPath |-> PluginsOutputPath(refSlug), exit |-> 0]
        /\ cache' = st.cache
        /\ componentCache' = st.componentCache
        /\ files' = CachePut(files, PluginsOutputPath(refSlug),
                             [mfes |-> st.mfes, pluginSlots |-> st.pluginSlots])
        /\ log' = log \o st.log
        /\ UNCHANGED <<orchVars, remoteVars, resolveVars, finput>>

\* repos.listForOrg throws: the outer catch ends the process with status 1
\* and nothing is written
CollectPluginsFatal ==
    /\ fcall = NoCall
    /\ fcall' = [fn |-> "collectPlugins", refSlug |-> Null, limit |-> 0,
                 outputPath |-> Null, exit |-> 1]
    /\ UNCHANGED <<cache, plugVars, orchVars, remoteVars, resolveVars, finput>>

NextPlugins ==
    \/ CallCollectPlugins
    \/ CollectPluginsFatal

SpecPlugins == InitPlugins /\ [][NextPlugins]_vars

\* ---------------------------------------------------------------------
\* Claim C8 (checked under SpecPlugins)
\* ---------------------------------------------------------------------
PluginsReturned == fcall.fn = "collectPlugins" /\ fcall.exit = 0

WrittenSlots == files[fcall.outputPath].pluginSlots

\* the console lines of the repositories whose plugin-slots directory was listed
ListedLines == { i \in DOMAIN log : log[i].msg = "Found plugin-slots directory" }

ListingOf(line) == remoteContent[RKey(line.repo, line.ref, "src/plugin-slots")].entries

DirsOf(entries) == { i \in DOMAIN entries : entries[i].type = "dir" }

ReadmeIsFile(line, entry) ==
    LET k == RKey(line.repo, line.ref, entry.path \o "/README.md")
    IN k \in DOMAIN remoteContent /\ remoteContent[k].kind = "file"

\* the records made from the entry of a listing
RecordsFrom(line, entry) ==
    { k \in DOMAIN WrittenSlots :
        /\ WrittenSlots[k].mfeId = line.repo
        /\ WrittenSlots[k].type = "mfe"
        /\ WrittenSlots[k].filePath = entry.path \o "/README.md" }

EntriesToRecords(line) ==
    LET entries == ListingOf(line) IN
    \A i \in DOMAIN entries :
        IF entries[i].type = "dir"
        THEN /\ Cardinality(RecordsFrom(line, entries[i])) = 1
             /\ \A k \in RecordsFrom(line, entries[i]) :
                   /\ WrittenSlots[k].readmePresent = ReadmeIsFile(line, entries[i])
                   /\ ~WrittenSlots[k].readmePresent => WrittenSlots[k].readmeContent = Null
        ELSE RecordsFrom(line, entries[i]) = {}

\* C8 as stated: file entries give no record, each directory entry gives
\* exactly one (README or not), so the number of slot records of a
\* repository equals the number of directory entries of its listing.
C8_Original_RecordsOfRepositoryEqualDirs ==
    PluginsReturned =>
        \A i \in ListedLines :
            /\ EntriesToRecords(log[i])
            /\ Cardinality({ k \in DOMAIN WrittenSlots : WrittenSlots[k].mfeId = log[i].repo })
                  = Cardinality(DirsOf(ListingOf(log[i])))

\* C8 (amended): file entries give no record, each directory entry gives
\* exactly one record of type mfe (with readmePresent false and no
\* readmeContent when its README.md is missing), so the number of records
\* of type mfe of a repository equals the number of directory entries of
\* its listing; the records of type header and footer attached to the
\* repository come in addition.
C8_MfeRecordsEqualDirs ==
    PluginsReturned =>
        \A i \in ListedLines :
            /\ EntriesToRecords(log[i])
            /\ Cardinality({ k \in DOMAIN WrittenSlots :
                               /\ WrittenSlots[k].mfeId = log[i].repo
                               /\ WrittenSlots[k].type = "mfe" })
                  = Cardinality(DirsOf(ListingOf(log[i])))

C8_Witness ==
    /\ PluginsReturned
    /\ \E i \in ListedLines :
          /\ log[i].repo = "frontend-app-learning"
          /\ ListingOf(log[i]) = EntrySeq
          /\ \E k \in DOMAIN WrittenSlots :
                /\ WrittenSlots[k].mfeId = "frontend-app-learning"
                /\ WrittenSlots[k].type = "mfe"
                /\ WrittenSlots[k].id = "Examples"
                /\ ~WrittenSlots[k].readmePresent
                /\ WrittenSlots[k].readmeContent = Null

\* ---------------------------------------------------------------------
\* scripts/collect-releases.ts: manifest entries
\* ---------------------------------------------------------------------
ManifestPath == "data/releases.json"

\* loadExistingManifestEntries: no file, no entries; the entries of a
\* manifest written by an earlier run all pass the shape filter
loadExistingManifestEntries(fs, path) ==
    IF path \notin DOMAIN fs THEN <<>> ELSE fs[path].releases

\* a.localeCompare(b) < 0 for slugs made of lower-case letters
RECURSIVE SlugLess(_, _, _)
SlugLess(a, b, i) ==
    IF i > Len(a) THEN i <= Len(b)
    ELSE IF i > Len(b) THEN FALSE
    ELSE IF Ch(a, i) = Ch(b, i) THEN SlugLess(a, b, i + 1)
    ELSE (CHOOSE k \in 1..26 : Ch(LowerAlpha, k) = Ch(a, i))
            < (CHOOSE k \in 1..26 : Ch(LowerAlpha, k) = Ch(b, i))

\* Array.prototype.sort by slug
RECURSIVE SortBySlug(_)
SortBySlug(entries) ==
    IF Len(entries) <= 1 THEN entries
    ELSE LET first == CHOOSE i \in DOMAIN entries :
                         \A j \in DOMAIN entries :
                            j = i \/ SlugLess(entries[i].slug, entries[j].slug, 1)
         IN <<entries[first]>>
            \o SortBySlug([k \in 1..(Len(entries) - 1) |->
                              IF k < first THEN entries[k] ELSE entries[k + 1]])

\* the Map bySlug as the sequence of its values in insertion order: an
\* entry whose slug is already present takes the place of the old one
RECURSIVE SetAll(_, _)
SetAll(values, updated) ==
    IF updated = <<>> THEN values
    ELSE LET e == Head(updated)
             at == { i \in DOMAIN values : values[i].slug = e.slug }
         IN SetAll(IF at = {} THEN Append(values, e)
                   ELSE [i \in DOMAIN values |-> IF i \in at THEN e ELSE values[i]],
                   Tail(updated))

IsKnown(entry) == entry.slug \in KnownSlugs
IsUnknown(entry) == entry.slug \notin KnownSlugs

\* knownOrder.map(slug => bySlug.get(slug)).filter(entry => !!entry)
RECURSIVE OrderedKnown(_, _)
OrderedKnown(bySlug, i) ==
    IF i > Len(KNOWN_RELEASES) THEN <<>>
    ELSE SelectSeq(bySlug, LAMBDA e : e.slug = KNOWN_RELEASES[i].slug)
         \o OrderedKnown(bySlug, i + 1)

\* mutant: the entries of the run are added to the existing ones
mergeManifestEntries_appended(existing, updated) == existing \o updated

\* mutant: the unrecognised entries keep their insertion order
mergeManifestEntries_unsorted(existing, updated) ==
    Bind(SetAll(SetAll(<<>>, existing), updated), LAMBDA bySlug :
        OrderedKnown(bySlug, 1) \o SelectSeq(bySlug, IsUnknown))

mergeManifestEntries(existing, updated) ==
    Bind(SetAll(SetAll(<<>>, existing), updated), LAMBDA bySlug :
        OrderedKnown(bySlug, 1) \o SortBySlug(SelectSeq(bySlug, IsUnknown)))

\* ---------------------------------------------------------------------
\* scripts/collect-events.ts: signal files
\* ---------------------------------------------------------------------
EventDescMax == 500       \* slice(0, 500) of a description
DirectiveLookBack == 20   \* lines searched above the registration line
ContinuationSpan == 10    \* lines after the directive searched for continuations

UpperSet == { Ch(UpperAlpha, i) : i \in 1..26 }

\* the characters matched by \w
WordCh == UpperSet \cup { Ch(LowerAlpha, i) : i \in 1..26 } \cup Digits \cup {"_"}

Quotes == {"\"", "'"}

Max(S) == CHOOSE x \in S : \A y \in S : y <= x

\* String.prototype.indexOf(lit, from), positions counted from 1, 0 when absent
indexOf(s, lit, from) ==
    LET idx == { i \in from..(Len(s) - Len(lit) + 1) : SubSeq(s, i, i + Len(lit) - 1) = lit }
    IN IF idx = {} THEN 0 ELSE Min(idx)

\* String.prototype.includes
includes(s, lit) == indexOf(s, lit, 1) # 0

\* replace(/a/g, b) for one-character a
RECURSIVE replaceAll(_, _, _)
replaceAll(s, a, b) ==
    LET p == ScanUntil(s, 1, {a})
    IN IF p > Len(s) THEN s
       ELSE SubSeq(s, 1, p - 1) \o b \o replaceAll(SubSeq(s, p + 1, Len(s)), a, b)

\* first position before pos (exclusive) such that every character from it
\* up to pos - 1 belongs to set; pos when there is none
ScanBack(s, pos, set) ==
    LET idx == { i \in 1..(pos - 1) : \A j \in i..(pos - 1) : Ch(s, j) \in set }
    IN IF idx = {} THEN pos ELSE Min(idx)

\* number of positions of lo..hi holding the character c
Count(s, lo, hi, c) == Cardinality({ i \in lo..hi : Ch(s, i) = c })

NoSignal == [found |-> FALSE, start |-> 0, end |-> 0, variableName |-> "", eventType |-> ""]

\* the match of
\*   /(\w+)\s*=\s*OpenEdxPublicSignal\s*\(\s*event_type="([^"]+)"/
\* whose literal OpenEdxPublicSignal stands at position q, the search having
\* started at position from
SignalAt(s, q, from) ==
    LET eq == ScanBack(s, q, Ws) - 1                   \* the = sign
        wEnd == ScanBack(s, eq, Ws) - 1                \* last character of the name
        wStart0 == ScanBack(s, wEnd + 1, WordCh)
        wStart == IF wStart0 < from THEN from ELSE wStart0
        open == ScanWhile(s, q + Len("OpenEdxPublicSignal"), Ws)
        key == ScanWhile(s, open + 1, Ws)
        lit == "event_type=\""
        tStart == key + Len(lit)
        tEnd == ScanUntil(s, tStart, {"\""})           \* the closing quote
    IN IF /\ eq >= 1 /\ eq >= from /\ Ch(s, eq) = "="
          /\ wEnd >= from /\ wStart <= wEnd
          /\ open <= Len(s) /\ Ch(s, open) = "("
          /\ tStart - 1 <= Len(s)
          /\ SubSeq(s, key, tStart - 1) = lit
          /\ tEnd <= Len(s) /\ tEnd > tStart
       THEN [found |-> TRUE, start |-> wStart, end |-> tEnd,
             variableName |-> SubSeq(s, wStart, wEnd),
             eventType |-> SubSeq(s, tStart, tEnd - 1)]
       ELSE NoSignal

\* signalRegex.exec(content) with lastIndex = from - 1
SignalExec(s, from) ==
    LET qs == { q \in from..(Len(s) - Len("OpenEdxPublicSignal") + 1) :
                  /\ SubSeq(s, q, q + Len("OpenEdxPublicSignal") - 1) = "OpenEdxPublicSignal"
                  /\ SignalAt(s, q, from).found }
    IN IF qs = {} THEN NoSignal ELSE SignalAt(s, Min(qs), from)

NoPair == [found |-> FALSE, end |-> 0, key |-> "", className |-> ""]

\* the match of /["'](\w+)["']:\s*([A-Z]\w*(?:Data|Type))/ starting at p
PairAt(s, p) ==
    LET k == ScanWhile(s, p + 1, WordCh)               \* the closing quote
        c == ScanWhile(s, k + 2, Ws)                   \* first character of the class
        e == ScanWhile(s, c + 1, WordCh)               \* first character after the name
        ends == { j \in (c + 4)..(e - 1) : SubSeq(s, j - 3, j) \in {"Data", "Type"} }
    IN IF /\ p <= Len(s) /\ Ch(s, p) \in Quotes
          /\ k > p + 1 /\ k + 1 <= Len(s)
          /\ Ch(s, k) \in Quotes /\ Ch(s, k + 1) = ":"
          /\ c <= Len(s) /\ Ch(s, c) \in UpperSet
          /\ ends # {}
       THEN [found |-> TRUE, end |-> Max(ends),
             key |-> SubSeq(s, p + 1, k - 1),
             className |-> SubSeq(s, c, Max(ends))]
       ELSE NoPair

\* the while loop over keyClassRegex.exec(dataContent)
RECURSIVE PairLoop(_, _, _)
PairLoop(s, from, acc) ==
    LET ps == { p \in from..Len(s) : Ch(s, p) \in Quotes /\ PairAt(s, p).found }
    IN IF ps = {} THEN acc
       ELSE Bind(PairAt(s, Min(ps)), LAMBDA m :
              PairLoop(s, m.end + 1, Append(acc, [key |-> m.key, className |-> m.className])))

\* the text between the first { after data= and the } that brings the
\* running count of braces back to zero; "" when there is none
DataContent(def, dataStart) ==
    LET opens == { i \in dataStart..Len(def) : Ch(def, i) = "{" }
        first == Min(opens)
        closes == { i \in dataStart..Len(def) :
                      /\ Ch(def, i) = "}"
                      /\ i > first
                      /\ Count(def, dataStart, i, "{") = Count(def, dataStart, i, "}") }
    IN IF opens = {} \/ closes = {} THEN ""
       ELSE SubSeq(def, first + 1, Min(closes) - 1)

\* the statement from the variable to the parenthesis closing its call;
\* one character when no parenthesis closes
SignalDefinition(content, varIndex) ==
    LET opens == { i \in varIndex..Len(content) : Ch(content, i) = "(" }
        first == Min(opens)
        closes == { i \in varIndex..Len(content) :
                      /\ Ch(content, i) = ")"
                      /\ i > first
                      /\ Count(content, first, i, "(") = Count(content, first, i, ")") }
    IN IF opens = {} \/ closes = {} THEN SubSeq(content, varIndex, varIndex)
       ELSE SubSeq(content, varIndex, Min(closes))

extractDataClassesFromSignal(content, variableName) ==
    LET varIndex == indexOf(content, variableName \o " =", 1)
    IN IF varIndex = 0 THEN <<>>
       ELSE Bind(SignalDefinition(content, varIndex), LAMBDA def :
              LET dataStart == indexOf(def, "data=", 1)
              IN IF dataStart = 0 THEN <<>>
                 ELSE Bind(DataContent(def, dataStart), LAMBDA dataContent :
                        IF dataContent = "" THEN <<>> ELSE PairLoop(dataContent, 1, <<>>)))

\* replace(/^#\s*/, '')
StripHashWs(s) ==
    IF startsWith(s, "#") THEN SubSeq(s, ScanWhile(s, 2, Ws), Len(s)) ELSE s

\* replace(/^\.\.\s+event_description:\s*/, '')
StripDirective(s) ==
    LET w == ScanWhile(s, 3, Ws)
        lit == "event_description:"
    IN IF /\ startsWith(s, "..")
          /\ w > 3
          /\ w + Len(lit) - 1 <= Len(s)
          /\ SubSeq(s, w, w + Len(lit) - 1) = lit
       THEN SubSeq(s, ScanWhile(s, w + Len(lit), Ws), Len(s))
       ELSE s

\* the continuation loop: lines j..hi-1 following the directive
RECURSIVE ContinuationLoop(_, _, _, _)
ContinuationLoop(lines, j, hi, acc) ==
    IF j >= hi THEN acc
    ELSE LET nextLine == trim(lines[j])
         IN IF startsWith(nextLine, "#") /\ ~includes(nextLine, ".. event_")
            THEN LET cont == trim(StripHashWs(nextLine))
                 IN ContinuationLoop(lines, j + 1, hi,
                                     IF cont # "" THEN Append(acc, cont) ELSE acc)
            ELSE IF \/ startsWith(nextLine, ".. event_")
                    \/ nextLine = ""
                    \/ ~startsWith(nextLine, "#")
                 THEN acc
                 ELSE ContinuationLoop(lines, j + 1, hi, acc)

\* the description derived from the event type
DescriptionFromType(eventType) ==
    LET parts == split(eventType, ".")
        last0 == IF Len(parts) >= 2 THEN parts[Len(parts) - 1] ELSE ""
        lastParts == IF last0 = "" THEN "event" ELSE last0
    IN UpperCh(Ch(replaceAll(lastParts, "_", " "), 1))
          \o replaceAll(SubSeq(lastParts, 2, Len(lastParts)), "_", " ")

extractEventDescription(content, variableName, eventType) ==
    LET lines == split(content, "\n")
        hits == { i \in 1..Len(lines) : includes(lines[i], variableName \o " =") }
        varIndex == IF hits = {} THEN 0 ELSE Min(hits)
        lo == IF varIndex - DirectiveLookBack < 1 THEN 1 ELSE varIndex - DirectiveLookBack
        found == { i \in lo..(varIndex - 1) :
                     includes(trim(lines[i]), ".. event_description:") }
    IN IF varIndex > 1 /\ found # {}
       THEN LET i == Max(found)
                description == trim(StripDirective(StripHashWs(trim(lines[i]))))
                hi == IF varIndex < i + ContinuationSpan THEN varIndex
                      ELSE i + ContinuationSpan
                descriptionLines ==
                    ContinuationLoop(lines, i + 1, hi,
                                     IF description # "" THEN <<description>> ELSE <<>>)
            IN IF Len(descriptionLines) > 0
               THEN slice0(join(descriptionLines, " "), EventDescMax)
               ELSE DescriptionFromType(eventType)
       ELSE DescriptionFromType(eventType)

\* one Event of parseEventFile; attributes holds the mappings of the
\* data={...} section, Null (undefined) when there are none
EventOf(content, filePath, domainName, m) ==
    LET namespace == replaceAll(domainName, "_", "-")
        dataClassMappings == extractDataClassesFromSignal(content, m.variableName)
    IN [id |-> namespace \o "." \o m.variableName,
        eventName |-> m.variableName,
        namespace |-> namespace,
        eventType |-> m.eventType,
        description |-> extractEventDescription(content, m.variableName, m.eventType),
        filePath |-> filePath,
        sourceUrl |-> "https://github.com/openedx/openedx-events/tree/main/" \o filePath,
        attributes |-> IF Len(dataClassMappings) > 0
                       THEN [kind |-> "mappings", list |-> dataClassMappings]
                       ELSE [kind |-> "undefined"]]

RECURSIVE SignalLoop(_, _, _, _, _)
SignalLoop(content, filePath, domainName, from, acc) ==
    Bind(SignalExec(content, from), LAMBDA m :
        IF ~m.found THEN acc
        ELSE SignalLoop(content, filePath, domainName, m.end + 1,
                        Append(acc, EventOf(content, filePath, domainName, m))))

parseEventFile(content, filePath, domainName) ==
    SignalLoop(content, filePath, domainName, 1, <<>>)

\* the classes of the mappings that the Map holds, each with its dataKey
RECURSIVE RelatedDataClasses(_, _)
RelatedDataClasses(mappings, dataClasses) ==
    IF mappings = <<>> THEN <<>>
    ELSE LET attr == Head(mappings)
             rest == RelatedDataClasses(Tail(mappings), dataClasses)
         IN IF attr.className \in DOMAIN dataClasses
            THEN << dataClasses[attr.className] @@ [dataKey |-> attr.key] >> \o rest
            ELSE rest

\* the callback of events.map in enrichEventsWithData
EnrichEvent(event, dataClasses) ==
    LET related == IF event.attributes.kind = "mappings"
                   THEN RelatedDataClasses(event.attributes.list, dataClasses)
                   ELSE <<>>
        cleanedEvent == [event EXCEPT !.attributes = [kind |-> "undefined"]]
    IN IF Len(related) > 0 THEN cleanedEvent @@ [dataClasses |-> related] ELSE cleanedEvent

enrichEventsWithData(events, dataClasses) ==
    [i \in DOMAIN events |-> EnrichEvent(events[i], dataClasses)]

\* ---------------------------------------------------------------------
\* SpecEvents: parseEventFile and enrichEventsWithData on one signals file
\* ---------------------------------------------------------------------
MaxSignals == 2           \* registration statements in a signals file

\* a registration statement: the variable, the event type, the text of the
\* event_description directive above it ("" for none) and the entries of
\* its data={...} mapping
SignalDef(variableName, eventType, directive, data) ==
    [variableName |-> variableName, eventType |-> eventType,
     directive |-> directive, data |-> data]

Mapping(key, className) == [key |-> key, className |-> className]

SignalDefs ==
    { SignalDef("COURSE_CREATED", "org.openedx.content_authoring.course.created.v1",
                "Emitted when a course is created.",
                << Mapping("course", "CourseData") >>),
      SignalDef("ENROLLMENT_CHANGED", "org.openedx.learning.course.enrollment.changed.v1",
                "",
                << Mapping("enrollment", "CourseEnrollmentData"),
                   Mapping("user", "UserData") >>),
      SignalDef("SUBSIDY_REDEEMED", "org.openedx.enterprise.subsidy.redeemed.v1",
                "Emitted when a subsidy is redeemed.",
                << Mapping("redemption", "SubsidyRedemption") >>),
      SignalDef("SESSION_STARTED", "org.openedx.learning.session.started.v1",
                "", <<>>),
      SignalDef("COURSE_ENROLLMENT_CHANGED",
                "org.openedx.learning.course.enrollment.updated.v1",
                "",
                << Mapping("course", "CourseData") >>) }

RECURSIVE RenderMappings(_)
RenderMappings(data) ==
    IF data = <<>> THEN ""
    ELSE "    \"" \o Head(data).key \o "\": " \o Head(data).className \o ",\n"
            \o RenderMappings(Tail(data))

\* the statement as it is written in signals.py
RenderSignal(d) ==
    (IF d.directive = "" THEN ""
     ELSE "# .. event_description: " \o d.directive \o "\n")
    \o d.variableName \o " = OpenEdxPublicSignal(\n"
    \o "  event_type=\"" \o d.eventType \o "\",\n"
    \o (IF d.data = <<>> THEN ""
        ELSE "  data={\n" \o RenderMappings(d.data) \o "  }\n")
    \o ")\n"

RECURSIVE RenderSignals(_)
RenderSignals(defs) ==
    IF defs = <<>> THEN "" ELSE RenderSignal(Head(defs)) \o "\n" \o RenderSignals(Tail(defs))

\* the signals files: up to MaxSignals statements of distinct variables
SignalFiles ==
    UNION { { f \in [1..n -> SignalDefs] : \A i, j \in 1..n : i # j => f[i] # f[j] }
            : n \in 1..MaxSignals }

ClassNames == { "CourseData", "UserData", "SubsidyRedemption" }

DataClassOf(name) ==
    [name |-> name, description |-> "Data of " \o name, attributes |-> <<>>]

\* what parseDataFile returns for a data.py declaring the classes of names
DataClassMaps == { [n \in names |-> DataClassOf(n)] : names \in SUBSET ClassNames }

SignalsPath == "openedx_events/content_authoring/signals.py"

InitEvents ==
    /\ remoteBranches = {}
    /\ remoteTags = {}
    /\ remoteContent = NoContent
    /\ cache = EmptyCache
    /\ ResolveIdle
    /\ PlugIdle
    /\ OrchIdle
    /\ fcall = NoCall
    /\ \E defs \in SignalFiles : \E dataClasses \in DataClassMaps :
          finput = [defs |-> defs, content |-> RenderSignals(defs),
                    domain |-> "content_authoring", dataClasses |-> dataClasses]

CallParseEventFile ==
    /\ fcall = NoCall
    /\ fcall' = [fn |-> "parseEventFile",
                 events |-> parseEventFile(finput.content, SignalsPath, finput.domain)]
    /\ UNCHANGED <<plugVars, orchVars, remoteVars, cache, resolveVars, finput>>

CallEnrichEventsWithData ==
    /\ fcall.fn = "parseEventFile"
    /\ fcall' = [fn |-> "enrichEventsWithData",
                 events |-> enrichEventsWithData(fcall.events, finput.dataClasses)]
    /\ UNCHANGED <<plugVars, orchVars, remoteVars, cache, resolveVars, finput>>

NextEvents ==
    \/ CallParseEventFile
    \/ CallEnrichEventsWithData

SpecEvents == InitEvents /\ [][NextEvents]_vars

\* ---------------------------------------------------------------------
\* Claim C11 (checked under SpecEvents)
\* ---------------------------------------------------------------------
\* the classes that the mapping names and the companion file declares,
\* in mapping order, each with the key it was declared under
ResolvableClasses(data, dataClasses) ==
    LET kept == SelectSeq(data, LAMBDA p : p.className \in DOMAIN dataClasses)
    IN [i \in DOMAIN kept |-> dataClasses[kept[i].className] @@ [dataKey |-> kept[i].key]]

Enriched == fcall.fn = "enrichEventsWithData"

\* C11: after enrichment an event carries dataClasses exactly when a class
\* named in its data={...} mapping is among the classes of the companion
\* file; the field then lists those classes in mapping order, each with
\* the key it was declared under, and the attributes field is removed.
C11_DataClassesIffMappedClassParsed ==
    Enriched =>
        /\ Len(fcall.events) = Len(finput.defs)
        /\ \A i \in DOMAIN fcall.events :
              LET event == fcall.events[i]
                  expected == ResolvableClasses(finput.defs[i].data, finput.dataClasses)
              IN /\ event.eventName = finput.defs[i].variableName
                 /\ ("dataClasses" \in DOMAIN event) <=> (Len(expected) > 0)
                 /\ ("dataClasses" \in DOMAIN event) => event.dataClasses = expected
                 /\ event.attributes.kind = "undefined"

\* an event whose mapping names a class of the companion file, enriched
\* without a dataClasses field
C11_Witness ==
    /\ Enriched
    /\ "SubsidyRedemption" \in DOMAIN finput.dataClasses
    /\ \E i \in DOMAIN fcall.events :
          /\ fcall.events[i].eventName = "SUBSIDY_REDEEMED"
          /\ finput.defs[i].data = << Mapping("redemption", "SubsidyRedemption") >>
          /\ "dataClasses" \notin DOMAIN fcall.events[i]

\* ---------------------------------------------------------------------
\* scripts/collect-filters.ts: filter classes of a filters.py
\* ---------------------------------------------------------------------
PurposeMax == 300         \* substring(0, 300) of a purpose

\* literal text lit stands at position pos of s
LitAt(s, pos, lit) == pos >= 1 /\ pos + Len(lit) - 1 <= Len(s)
                      /\ SubSeq(s, pos, pos + Len(lit) - 1) = lit

\* the positions of s where lit stands
Occurrences(s, lit) == { p \in 1..(Len(s) - Len(lit) + 1) : LitAt(s, p, lit) }

\* /^class\s+(\w+)\(OpenEdxPublicFilter\):/ : the class name, "" when the
\* line does not match
FilterClassName(line) ==
    LET n == ScanWhile(line, 6, Ws)
        e == ScanWhile(line, n, WordCh)
    IN IF startsWith(line, "class") /\ n > 6 /\ e > n
          /\ LitAt(line, e, "(OpenEdxPublicFilter):")
       THEN SubSeq(line, n, e - 1)
       ELSE ""

\* /^class\s+\w+/
IsClassLine(line) ==
    LET n == ScanWhile(line, 6, Ws)
    IN startsWith(line, "class") /\ n > 6 /\ n <= Len(line) /\ Ch(line, n) \in WordCh

\* the index of the line ending the class that starts at line i: the next
\* line opening a class, or one past the last line
ClassEndLine(lines, i) ==
    LET next == { j \in (i + 1)..Len(lines) : IsClassLine(lines[j]) }
    IN IF next = {} THEN Len(lines) + 1 ELSE Min(next)

NoFilterType == [found |-> FALSE, value |-> ""]

\* /filter_type\s*=\s*['"](.*?)['"]/ on one line
FilterTypeIn(line) ==
    LET hits == { p \in Occurrences(line, "filter_type") :
                    LET eq == ScanWhile(line, p + Len("filter_type"), Ws)
                        q == ScanWhile(line, eq + 1, Ws)
                    IN /\ eq <= Len(line) /\ Ch(line, eq) = "="
                       /\ q <= Len(line) /\ Ch(line, q) \in Quotes
                       /\ ScanUntil(line, q + 1, Quotes) <= Len(line) }
    IN IF hits = {} THEN NoFilterType
       ELSE LET p == Min(hits)
                q == ScanWhile(line, ScanWhile(line, p + Len("filter_type"), Ws) + 1, Ws)
            IN [found |-> TRUE,
                value |-> SubSeq(line, q + 1, ScanUntil(line, q + 1, Quotes) - 1)]

\* the filter type of the first line declaring one, else the default
FilterTypeOf(classLines, className) ==
    LET hits == { j \in DOMAIN classLines : FilterTypeIn(classLines[j]).found }
    IN IF hits = {} THEN "org.openedx." \o className
       ELSE FilterTypeIn(classLines[Min(hits)]).value

\* the lines between the first two lines holding """, each followed by a
\* line break, trimmed
Docstring(classLines) ==
    LET quoted == { j \in DOMAIN classLines : includes(classLines[j], "\"\"\"") }
        first == Min(quoted)
        later == { j \in quoted : j > first }
        last == IF later = {} THEN Len(classLines) + 1 ELSE Min(later)
    IN IF quoted = {} THEN ""
       ELSE trim(join([k \in 1..(last - first - 1) |-> classLines[first + k] \o "\n"], ""))

\* /Purpose:\s*([\s\S]*?)(?:Filter Type:|Trigger:|$)/, trimmed and cut
PurposeOf(docstring) ==
    LET hits == Occurrences(docstring, "Purpose:")
        start == ScanWhile(docstring, Min(hits) + Len("Purpose:"), Ws)
        stops == { p \in start..Len(docstring) :
                     LitAt(docstring, p, "Filter Type:") \/ LitAt(docstring, p, "Trigger:") }
        end == IF stops = {} THEN Len(docstring) + 1 ELSE Min(stops)
    IN slice0(IF hits = {} THEN docstring ELSE trim(SubSeq(docstring, start, end - 1)),
              PurposeMax)

\* (\S+)\s*-\s*<label> read from position pos: the ends of the group for
\* which the label follows, and the position after the label
AfterDash(s, k, label) ==
    LET d == ScanWhile(s, k + 1, Ws)
        l == ScanWhile(s, d + 1, Ws)
    IN IF d <= Len(s) /\ Ch(s, d) = "-" /\ LitAt(s, l, label)
       THEN l + Len(label) ELSE 0

GroupEnds(s, pos) == pos..(ScanUntil(s, pos, Ws) - 1)

NoTrigger == [kind |-> "undefined"]

\* the match of
\*   /Trigger:\s*-\s*Repository:\s*(\S+)\s*-\s*Path:\s*(\S+)\s*-\s*Function\s+or\s+Method:\s*(\S+)/
\* whose literal Trigger: stands at position p
TriggerAt(s, p) ==
    LET FnLabel(pos) ==
            \* Function\s+or\s+Method: from pos, the position after it or 0
            LET a == pos + Len("Function")
                b == ScanWhile(s, a, Ws)
                c == b + Len("or")
                d == ScanWhile(s, c, Ws)
            IN IF LitAt(s, pos, "Function") /\ b > a /\ LitAt(s, b, "or")
                  /\ d > c /\ LitAt(s, d, "Method:")
               THEN d + Len("Method:") ELSE 0
        FnAfter(k) ==
            LET dash == ScanWhile(s, k + 1, Ws)
            IN IF dash <= Len(s) /\ Ch(s, dash) = "-"
               THEN FnLabel(ScanWhile(s, dash + 1, Ws)) ELSE 0
        g1 == ScanWhile(s, AfterDash(s, p + Len("Trigger:") - 1, "Repository:"), Ws)
        PathStart(k1) == ScanWhile(s, AfterDash(s, k1, "Path:"), Ws)
        FnStart(k2) == ScanWhile(s, FnAfter(k2), Ws)
        ends2(k1) == { k2 \in GroupEnds(s, PathStart(k1)) :
                         /\ FnAfter(k2) # 0
                         /\ FnStart(k2) <= Len(s) }
        ends1 == { k1 \in GroupEnds(s, g1) :
                     /\ AfterDash(s, k1, "Path:") # 0
                     /\ PathStart(k1) <= Len(s)
                     /\ ends2(k1) # {} }
    IN IF AfterDash(s, p + Len("Trigger:") - 1, "Repository:") = 0 \/ g1 > Len(s)
          \/ ends1 = {}
       THEN NoTrigger
       ELSE LET k1 == Max(ends1)
                k2 == Max(ends2(k1))
                g3 == FnStart(k2)
            IN [kind |-> "trigger",
                repository |-> SubSeq(s, g1, k1),
                path |-> SubSeq(s, PathStart(k1), k2),
                function |-> SubSeq(s, g3, ScanUntil(s, g3, Ws) - 1)]

\* mutant: a trigger is built from the Repository line alone
TriggerOf_partial(docstring) ==
    LET hits == { p \in Occurrences(docstring, "Trigger:") :
                    AfterDash(docstring, p + Len("Trigger:") - 1, "Repository:") # 0 }
    IN IF hits = {} THEN NoTrigger
       ELSE IF TriggerAt(docstring, Min(hits)).kind = "trigger"
            THEN TriggerAt(docstring, Min(hits))
            ELSE [kind |-> "trigger", repository |-> "openedx/edx-platform",
                  path |-> "", function |-> ""]

\* docstring.match(trigger pattern): the leftmost match
TriggerOf(docstring) ==
    LET hits == { p \in Occurrences(docstring, "Trigger:") :
                    TriggerAt(docstring, p).kind = "trigger" }
    IN IF hits = {} THEN NoTrigger ELSE TriggerAt(docstring, Min(hits))

\* mutant: the category is the last segment
extractCategory_last(filterType) ==
    LET parts == split(filterType, ".")
    IN IF Len(parts) >= 3 THEN parts[Len(parts)] ELSE "general"

extractCategory(filterType) ==
    LET parts == split(filterType, ".")
    IN IF Len(parts) >= 3 THEN parts[3] ELSE "general"

\* the characters of the modelled filter types in the order of the root
\* collation used by String.prototype.localeCompare: punctuation, then
\* digits, then letters, upper and lower case at the same rank
CollationOrder == "_-.0123456789abcdefghijklmnopqrstuvwxyz"

\* the same characters in the order of their UTF-16 code units
CodeUnitOrder == "-.0123456789ABCDEFGHIJKLMNOPQRSTUVWXYZ_abcdefghijklmnopqrstuvwxyz"

RankIn(order, c) ==
    LET hits == { k \in 1..Len(order) : Ch(order, k) = c }
    IN IF hits = {} THEN 0 ELSE Min(hits)

\* sequence a before sequence b, compared number by number from index i on
RECURSIVE SeqLess(_, _, _)
SeqLess(a, b, i) ==
    IF i > Len(a) THEN i <= Len(b)
    ELSE IF i > Len(b) THEN FALSE
    ELSE IF a[i] = b[i] THEN SeqLess(a, b, i + 1)
    ELSE a[i] < b[i]

PrimaryKey(s) == [i \in 1..Len(s) |-> RankIn(CollationOrder, LowerCh(Ch(s, i)))]
CaseKey(s) == [i \in 1..Len(s) |-> IF Ch(s, i) \in UpperSet THEN 1 ELSE 0]
CodeUnitKey(s) == [i \in 1..Len(s) |-> RankIn(CodeUnitOrder, Ch(s, i))]

\* a.localeCompare(b): the letters and signs decide first, the letter case
\* only between strings otherwise equal (lower case first)
localeCompare(a, b) ==
    IF SeqLess(PrimaryKey(a), PrimaryKey(b), 1) THEN 0 - 1
    ELSE IF SeqLess(PrimaryKey(b), PrimaryKey(a), 1) THEN 1
    ELSE IF SeqLess(CaseKey(a), CaseKey(b), 1) THEN 0 - 1
    ELSE IF SeqLess(CaseKey(b), CaseKey(a), 1) THEN 1
    ELSE 0

\* mutant: the records stay in the order they were read in
SortByFilterType_unsorted(filters) == filters

\* filters.sort((a, b) => a.filterType.localeCompare(b.filterType)): a
\* stable sort, each record placed after those not greater than it
RECURSIVE SortByFilterType(_)
SortByFilterType(filters) ==
    IF Len(filters) <= 1 THEN filters
    ELSE LET n == Len(filters)
             sorted == SortByFilterType(SubSeq(filters, 1, n - 1))
             x == filters[n]
             before == { k \in DOMAIN sorted :
                           localeCompare(sorted[k].filterType, x.filterType) <= 0 }
             at == IF before = {} THEN 0 ELSE Max(before)
         IN SubSeq(sorted, 1, at) \o <<x>> \o SubSeq(sorted, at + 1, Len(sorted))

\* Array.from(categoriesSet).sort(): code-unit order, each category once
RECURSIVE SortCategories(_)
SortCategories(S) ==
    IF S = {} THEN <<>>
    ELSE LET first == CHOOSE a \in S : \A b \in S :
                            a = b \/ SeqLess(CodeUnitKey(a), CodeUnitKey(b), 1)
         IN <<first>> \o SortCategories(S \ {first})

\* the Filter of the class whose first line is line i; the argument,
\* return and exception lists, read from run_filter and from the nested
\* exception classes, are left out
FilterOf(lines, i, filePath, ref) ==
    LET className == FilterClassName(lines[i])
        classLines == SubSeq(lines, i, ClassEndLine(lines, i) - 1)
    IN Bind(FilterTypeOf(classLines, className), LAMBDA filterType :
       Bind(Docstring(classLines), LAMBDA docstring :
         [id |-> className,
          filterType |-> filterType,
          name |-> className,
          category |-> extractCategory(filterType),
          description |-> PurposeOf(docstring),
          repository |-> "https://github.com/openedx/openedx-filters",
          filePath |-> filePath,
          sourceUrl |-> "https://github.com/openedx/openedx-filters/blob/" \o ref \o "/"
                          \o filePath \o "#L" \o ToString(i),
          trigger |-> TriggerOf(docstring)]))

RECURSIVE FilterClassLoop(_, _, _, _, _)
FilterClassLoop(lines, i, filePath, ref, acc) ==
    IF i > Len(lines) THEN acc
    ELSE IF FilterClassName(lines[i]) # ""
    THEN FilterClassLoop(lines, ClassEndLine(lines, i), filePath, ref,
                         Append(acc, FilterOf(lines, i, filePath, ref)))
    ELSE FilterClassLoop(lines, i + 1, filePath, ref, acc)

extractFilterClasses(content, filePath, ref) ==
    FilterClassLoop(split(content, "\n"), 1, filePath, ref, <<>>)

\* parseFilterFile: [filters, cache]
parseFilterFile(c, filePath, ref) ==
    Bind(getTextFile(c, "openedx", "openedx-filters", filePath, ref), LAMBDA r :
        [filters |-> IF r.text = Null \/ r.text = "" THEN <<>>
                     ELSE extractFilterClasses(r.text, filePath, ref),
         cache |-> r.cache])

FilterDirs == << "openedx_filters/learning", "openedx_filters/content_authoring" >>

\* the entries of a listing that are a file named filters.py
RECURSIVE FilterFilesIn(_)
FilterFilesIn(items) ==
    IF items = <<>> THEN <<>>
    ELSE (IF Head(items).type = "file" /\ Head(items).name = "filters.py"
          THEN << Head(items).path >> ELSE <<>>) \o FilterFilesIn(Tail(items))

\* findFilterFiles: [paths, cache]
RECURSIVE findFilterFiles(_, _, _, _)
findFilterFiles(c, ref, d, acc) ==
    IF d > Len(FilterDirs) THEN [paths |-> acc, cache |-> c]
    ELSE Bind(listDir(c, "openedx", "openedx-filters", FilterDirs[d], ref), LAMBDA r :
            findFilterFiles(r.cache, ref, d + 1,
                            IF r.entries.ok THEN acc \o FilterFilesIn(r.entries.items)
                            ELSE acc))

RECURSIVE FilterFileLoop(_, _, _, _, _)
FilterFileLoop(c, paths, k, ref, acc) ==
    IF k > Len(paths) THEN [filters |-> acc, cache |-> c]
    ELSE Bind(parseFilterFile(c, paths[k], ref), LAMBDA r :
            FilterFileLoop(r.cache, paths, k + 1, ref, acc \o r.filters))

\* collectFilters with a ref: [output, cache], output being the document
\* written to outputPath (its lastUpdated stamps left out)
collectFilters(c, ref) ==
    Bind(findFilterFiles(c, ref, 1, <<>>), LAMBDA found :
    Bind(FilterFileLoop(found.cache, found.paths, 1, ref, <<>>), LAMBDA parsed :
        [output |-> [filters |-> SortByFilterType(parsed.filters),
                     categories |-> SortCategories({ parsed.filters[k].category :
                                                       k \in DOMAIN parsed.filters })],
         cache |-> parsed.cache]))

\* ---------------------------------------------------------------------
\* SpecFilters: collectFilters on the filters.py files of openedx-filters
\* ---------------------------------------------------------------------
MaxFilterClasses == 2     \* filter classes in the learning filters.py

\* a filter class as written: its name, the filter_type assigned in its
\* body ("" for none), the purpose and the lines of its Trigger: section
\* ("" for a line that is not written)
FilterClassDef(name, filterType, purpose, repository, path, function) ==
    [name |-> name, filterType |-> filterType, purpose |-> purpose,
     repository |-> repository, path |-> path, function |-> function]

FilterClassDefs ==
    { FilterClassDef("CourseEnrollmentStarted",
                     "org.openedx.learning.course.enrollment.started.v1",
                     "Filter the enrollment.",
                     "openedx/edx-platform", "student/models.py", "enroll"),
      FilterClassDef("CourseAboutRenderStarted",
                     "org.openedx.learning.course_about.render.started.v1",
                     "Filter the about page.", "", "", ""),
      FilterClassDef("LibraryBlockRequested", "",
                     "Filter a library block.", "openedx/edx-platform", "", ""),
      FilterClassDef("AccountSettingsRequested",
                     "org.openedx.learning.account.settings.requested.v1",
                     "", "openedx/edx-platform", "accounts/views.py", ""),
      FilterClassDef("ShortType", "short.type",
                     "Filter with a short type.",
                     "openedx/edx-platform", "short.py", "run") }

HasTriggerSection(d) == d.repository # "" \/ d.path # "" \/ d.function # ""

\* the class as it is written in filters.py
RenderFilterClass(d) ==
    "class " \o d.name \o "(OpenEdxPublicFilter):\n"
    \o "    \"\"\"\n"
    \o (IF d.purpose = "" THEN "" ELSE "    Purpose: " \o d.purpose \o "\n")
    \o (IF d.filterType = "" THEN "" ELSE "    Filter Type: " \o d.filterType \o "\n")
    \o (IF HasTriggerSection(d) THEN "    Trigger:\n" ELSE "")
    \o (IF d.repository = "" THEN "" ELSE "        - Repository: " \o d.repository \o "\n")
    \o (IF d.path = "" THEN "" ELSE "        - Path: " \o d.path \o "\n")
    \o (IF d.function = "" THEN ""
        ELSE "        - Function or Method: " \o d.function \o "\n")
    \o "    \"\"\"\n"
    \o (IF d.filterType = "" THEN ""
        ELSE "    filter_type = \"" \o d.filterType \o "\"\n")
    \o "\n"

RECURSIVE RenderFilterFile(_)
RenderFilterFile(defs) ==
    IF defs = <<>> THEN "import attr\n\n"
    ELSE RenderFilterFile(SubSeq(defs, 1, Len(defs) - 1)) \o RenderFilterClass(defs[Len(defs)])

\* the learning filters.py: up to MaxFilterClasses distinct classes
LearningFilterFiles ==
    UNION { { f \in [1..n -> FilterClassDefs] : \A i, j \in 1..n : i # j => f[i] # f[j] }
            : n \in 0..MaxFilterClasses }

AuthoringFilterFiles ==
    { <<>> } \cup { <<d>> : d \in { e \in FilterClassDefs : e.function # "" \/ e.purpose = "" } }

FiltersRef == "v1.0.0"

FilterListing(dir) ==
    DirAnswer(<< [type |-> "file", name |-> "__init__.py", path |-> dir \o "/__init__.py"],
                 [type |-> "dir", name |-> "filters.py", path |-> dir \o "/tests"],
                 [type |-> "file", name |-> "filters.py", path |-> dir \o "/filters.py"] >>)

\* the tree of openedx-filters at ref: a directory exists when its
\* filters.py holds a class
FiltersTree(ref, learning, authoring) ==
    LET FKey(path) == <<"openedx", "openedx-filters", ref, path>>
        Dir(dir, defs) ==
            IF defs = <<>> THEN NoContent
            ELSE (FKey(dir) :> FilterListing(dir))
                 @@ (FKey(dir \o "/filters.py") :> FileAnswer(RenderFilterFile(defs)))
    IN Dir(FilterDirs[1], learning) @@ Dir(FilterDirs[2], authoring)

InitFilters ==
    /\ remoteBranches = {}
    /\ remoteTags = {}
    /\ cache = EmptyCache
    /\ ResolveIdle
    /\ PlugIdle
    /\ OrchIdle
    /\ fcall = NoCall
    /\ \E learning \in LearningFilterFiles : \E authoring \in AuthoringFilterFiles :
          /\ finput = [learning |-> learning, authoring |-> authoring]
          /\ remoteContent = FiltersTree(FiltersRef, learning, authoring)

FiltersOutputPath == "data/releases/sumac/filters.json"

\* collectFilters({ ref, outputPath }) returning normally
CallCollectFilters ==
    /\ fcall = NoCall
    /\ \E st \in {collectFilters(cache, FiltersRef)} :
          /\ fcall' = [fn |-> "collectFilters", ref |-> FiltersRef,
                       outputPath |-> FiltersOutputPath, exit |-> 0]
          /\ cache' = st.cache
          /\ files' = CachePut(files, FiltersOutputPath, st.output)
    /\ UNCHANGED <<componentCache, log, orchVars, remoteVars, resolveVars, finput>>

\* writing the output throws: the catch ends the process with status 1
CollectFiltersFatal ==
    /\ fcall = NoCall
    /\ fcall' = [fn |-> "collectFilters", ref |-> FiltersRef,
                 outputPath |-> FiltersOutputPath, exit |-> 1]
    /\ UNCHANGED <<cache, plugVars, orchVars, remoteVars, resolveVars, finput>>

NextFilters ==
    \/ CallCollectFilters
    \/ CollectFiltersFatal

SpecFilters == InitFilters /\ [][NextFilters]_vars

\* ---------------------------------------------------------------------
\* Claims C12, C13 and C14 (checked under SpecFilters)
\* ---------------------------------------------------------------------
FiltersWritten == FiltersOutputPath \in DOMAIN files

WrittenFilters == files[FiltersOutputPath].filters

\* the class, as written, that a record was read from
FilterDefOf(f) == CHOOSE d \in FilterClassDefs : d.name = f.id

FullTrigger(d) == d.repository # "" /\ d.path # "" /\ d.function # ""

\* C12: a Filter record has no trigger, or a trigger whose repository, path
\* and function are all non-empty (those written in the docstring); a class
\* whose docstring has no Trigger: section, or only some of its three
\* lines, has no trigger.
C12_TriggerWholeOrUndefined ==
    FiltersWritten =>
        \A k \in DOMAIN WrittenFilters :
            LET f == WrittenFilters[k]
                d == FilterDefOf(f)
            IN /\ f.trigger.kind \in {"undefined", "trigger"}
               /\ f.trigger.kind = "trigger" =>
                     /\ f.trigger.repository # ""
                     /\ f.trigger.path # ""
                     /\ f.trigger.function # ""
                     /\ f.trigger = [kind |-> "trigger", repository |-> d.repository,
                                     path |-> d.path, function |-> d.function]
               /\ ~FullTrigger(d) => f.trigger.kind = "undefined"

C12_Witness ==
    /\ FiltersWritten
    /\ \E k \in DOMAIN WrittenFilters :
          /\ WrittenFilters[k].id = "CourseEnrollmentStarted"
          /\ WrittenFilters[k].trigger.kind = "trigger"
          /\ WrittenFilters[k].trigger.function = "enroll"
    /\ \E k \in DOMAIN WrittenFilters :
          /\ WrittenFilters[k].id = "LibraryBlockRequested"
          /\ FilterDefOf(WrittenFilters[k]).repository # ""
          /\ WrittenFilters[k].trigger.kind = "undefined"

\* the text between the second and the third dot of s (or its end),
\* "general" when s has fewer than two dots
ThirdSegment(s) ==
    LET dots == { i \in 1..Len(s) : Ch(s, i) = "." }
        second == CHOOSE i \in dots : Cardinality({ j \in dots : j < i }) = 1
        after == { i \in dots : i > second }
        end == IF after = {} THEN Len(s) + 1 ELSE Min(after)
    IN IF Cardinality(dots) < 2 THEN "general" ELSE SubSeq(s, second + 1, end - 1)

\* C13: the category of a Filter record is the third dot-separated
\* segment of its filterType, general when there are fewer than three;
\* also for the filterType made from the class name.
C13_CategoryIsThirdSegment ==
    FiltersWritten =>
        \A k \in DOMAIN WrittenFilters :
            LET f == WrittenFilters[k]
                d == FilterDefOf(f)
            IN /\ f.category = ThirdSegment(f.filterType)
               /\ d.filterType # "" => f.filterType = d.filterType
               /\ d.filterType = "" => /\ f.filterType = "org.openedx." \o d.name
                                       /\ f.category = d.name

C13_Witness ==
    /\ FiltersWritten
    /\ \E k \in DOMAIN WrittenFilters :
          /\ WrittenFilters[k].filterType = "short.type"
          /\ WrittenFilters[k].category = "general"
    /\ \E k \in DOMAIN WrittenFilters :
          /\ WrittenFilters[k].filterType = "org.openedx.LibraryBlockRequested"
          /\ WrittenFilters[k].category = "LibraryBlockRequested"
    /\ \E k \in DOMAIN WrittenFilters :
          /\ WrittenFilters[k].filterType = "org.openedx.learning.account.settings.requested.v1"
          /\ WrittenFilters[k].category = "learning"

\* the classes read, in the order of the files and of the classes in them
ClassesRead == finput.learning \o finput.authoring

\* the document holds one record for each class read
HoldsEveryClass ==
    /\ Len(WrittenFilters) = Len(ClassesRead)
    /\ \A d \in FilterClassDefs :
          Cardinality({ k \in DOMAIN WrittenFilters : WrittenFilters[k].id = d.name })
             = Cardinality({ k \in DOMAIN ClassesRead : ClassesRead[k] = d })

\* C14 as stated: the records of the written document are in ascending
\* lexicographic (code unit) order of filterType.
C14_Original_CodeUnitOrder ==
    FiltersWritten =>
        \A i, j \in DOMAIN WrittenFilters :
            i < j => ~SeqLess(CodeUnitKey(WrittenFilters[j].filterType),
                              CodeUnitKey(WrittenFilters[i].filterType), 1)

\* C14: the written document holds a record for each class read and its
\* records are in non-descending order of filterType as compared by
\* localeCompare, whatever the order of the files and of their classes.
C14_LocaleCompareOrder ==
    FiltersWritten =>
        /\ HoldsEveryClass
        /\ \A i, j \in DOMAIN WrittenFilters :
              i < j => localeCompare(WrittenFilters[i].filterType,
                                     WrittenFilters[j].filterType) <= 0

C14_Witness ==
    /\ FiltersWritten
    /\ Len(finput.learning) = 2
    /\ Len(finput.authoring) = 1
    /\ finput.learning[1].name = "CourseEnrollmentStarted"
    /\ finput.learning[2].name = "LibraryBlockRequested"
    /\ finput.authoring[1].name = "AccountSettingsRequested"
    /\ WrittenFilters[1].id = "AccountSettingsRequested"
    /\ WrittenFilters[2].id = "CourseEnrollmentStarted"
    /\ WrittenFilters[3].id = "LibraryBlockRequested"

\* ---------------------------------------------------------------------
\* scripts/collect-events.ts: parseDataFile and collectEvents
\* ---------------------------------------------------------------------
NoClass == [ok |-> FALSE]

\* attrClassRegex tried at an occurrence p of "@attr.s":
\* /@attr\.s[^\n]*\nclass\s+(\w+)[^\n]*:\s*\n\s*"""([\s\S]*?)"""/
AttrClassAt(s, p) ==
    LET c == ScanUntil(s, p + 7, {"\n"}) + 1
        n == ScanWhile(s, c + 5, Ws)
        e == ScanWhile(s, n, WordCh)
        eol == ScanUntil(s, e, {"\n"})
        colons == { k \in e..(eol - 1) :
                       /\ Ch(s, k) = ":"
                       /\ ScanWhile(s, k + 1, Ws) > eol
                       /\ LitAt(s, ScanWhile(s, k + 1, Ws), "\"\"\"") }
    IN IF LitAt(s, c, "class") /\ n > c + 5 /\ e > n /\ eol <= Len(s) /\ colons # {}
       THEN LET open == ScanWhile(s, Max(colons) + 1, Ws)
                close == indexOf(s, "\"\"\"", open + 3)
            IN IF close = 0 THEN NoClass
               ELSE [ok |-> TRUE,
                     className |-> SubSeq(s, n, e - 1),
                     docstring |-> SubSeq(s, open + 3, close - 1),
                     next |-> close + 3]
       ELSE NoClass

\* the loop over attrClassRegex.exec; the attributes of a class
\* (parseDataClassAttributes) are not followed, the list is left empty
RECURSIVE DataClassLoop(_, _, _)
DataClassLoop(content, from, dataClasses) ==
    LET p == indexOf(content, "@attr.s", from)
        m == AttrClassAt(content, p)
    IN IF p = 0 THEN dataClasses
       ELSE IF ~m.ok THEN DataClassLoop(content, p + 1, dataClasses)
       ELSE DataClassLoop(content, m.next,
                CachePut(dataClasses, m.className,
                         [name |-> m.className,
                          description |-> split(trim(m.docstring), "\n")[1],
                          attributes |-> <<>>]))

parseDataFile(content) == DataClassLoop(content, 1, [k \in {} |-> NoClass])

\* octokit.rest.repos.getContent without a ref: the default branch
DefaultBranch == Null

EventsContent(path) ==
    IF <<"openedx", "openedx-events", DefaultBranch, path>> \in DOMAIN remoteContent
    THEN remoteContent[<<"openedx", "openedx-events", DefaultBranch, path>>]
    ELSE [kind |-> "absent"]

\* the body of the loop over the domains: nothing for a domain whose
\* signals.py request throws
DomainEvents(domain) ==
    LET signals == EventsContent(domain.path \o "/signals.py")
        data == EventsContent(domain.path \o "/data.py")
        dataClasses == IF data.kind = "file" THEN parseDataFile(data.text)
                       ELSE [k \in {} |-> NoClass]
    IN IF signals.kind = "file"
       THEN enrichEventsWithData(
                parseEventFile(signals.text, domain.path \o "/signals.py", domain.name),
                dataClasses)
       ELSE <<>>

\* mutant: the loop ends at the first domain whose signals.py is missing
RECURSIVE DomainLoop_stopsAtMissing(_, _)
DomainLoop_stopsAtMissing(domainDirs, events) ==
    IF domainDirs = <<>> THEN events
    ELSE IF EventsContent(Head(domainDirs).path \o "/signals.py").kind = "absent"
    THEN events
    ELSE DomainLoop_stopsAtMissing(Tail(domainDirs), events \o DomainEvents(Head(domainDirs)))

RECURSIVE DomainLoop(_, _)
DomainLoop(domainDirs, events) ==
    IF domainDirs = <<>> THEN events
    ELSE DomainLoop(Tail(domainDirs), events \o DomainEvents(Head(domainDirs)))

IsDomainDir(item) ==
    item.type = "dir" /\ ~startsWith(item.name, "__") /\ item.name # "tests"

EventsOutputPath == "data/events.json"

\* mutant: the request for a signals.py that throws is not caught
collectEvents_noInnerCatch ==
    LET rootContents == EventsContent("openedx_events")
        domainDirs == SelectSeq(rootContents.entries, IsDomainDir)
    IN IF rootContents.kind # "dir"
       THEN [exit |-> 1, output |-> Null]
       ELSE IF \E i \in DOMAIN domainDirs :
                  EventsContent(domainDirs[i].path \o "/signals.py").kind = "absent"
       THEN [exit |-> 1, output |-> Null]
       ELSE [exit |-> 0,
             output |-> [repository |-> "https://github.com/openedx/openedx-events",
                         events |-> DomainLoop(domainDirs, <<>>)]]

\* collectEvents: [exit, output]; the request for openedx_events that
\* throws, or answers a file, ends the process with status 1
collectEvents ==
    LET rootContents == EventsContent("openedx_events")
    IN IF rootContents.kind # "dir"
       THEN [exit |-> 1, output |-> Null]
       ELSE [exit |-> 0,
             output |-> [repository |-> "https://github.com/openedx/openedx-events",
                         events |-> DomainLoop(SelectSeq(rootContents.entries, IsDomainDir),
                                               <<>>)]]

\* ---------------------------------------------------------------------
\* scripts/collect-releases.ts: collectReleases and collectForRelease as
\* the steps of one run
\* ---------------------------------------------------------------------
\* KNOWN_RELEASES.filter(r => r.slug === singleRelease), or all of them
RunReleases ==
    IF argv.release = Null \/ argv.release = ""
    THEN KNOWN_RELEASES
    ELSE SelectSeq(KNOWN_RELEASES, LAMBDA r : r.slug = argv.release)

Release == RunReleases[relIdx]

OutDir(slug) == "data/releases/" \o slug

Line(msg, text) == [msg |-> msg, release |-> Release.slug, text |-> text]

\* mutant: the cache is kept from one release to the next
NextRelease_keepsCache ==
    /\ UNCHANGED cache
    /\ relIdx' = relIdx + 1
    /\ pc' = IF relIdx < Len(RunReleases) THEN "release" ELSE "manifest"

\* after collectForRelease returned: clearCache() and the next release,
\* or the manifest after the last one
NextRelease ==
    /\ cache' = EmptyCache
    /\ relIdx' = relIdx + 1
    /\ pc' = IF relIdx < Len(RunReleases) THEN "release" ELSE "manifest"

\* collectReleases up to the loop over the releases
StartRun ==
    /\ pc = "start"
    /\ IF argv.dryRun
       THEN /\ pc' = "done"
            /\ log' = Append(log, [msg |-> "DRY RUN", release |-> Null, text |-> ""])
            /\ UNCHANGED relIdx
       ELSE IF Len(RunReleases) = 0
       THEN /\ pc' = "exit"
            /\ log' = Append(log, [msg |-> "Unknown release", release |-> Null,
                                   text |-> argv.release])
            /\ UNCHANGED relIdx
       ELSE /\ pc' = "release"
            /\ relIdx' = 1
            /\ log' = Append(log, [msg |-> "Starting release data collection",
                                   release |-> Null, text |-> ""])
    /\ UNCHANGED <<remoteVars, cache, resolveVars, fnVars, componentCache, files, argv, rel,
                   manifestEntries>>

\* mutant: collectForRelease goes on without a platform ref
ResolvePlatform_noReturn ==
    /\ pc = "release"
    /\ \E r \in {resolveEdxPlatformRef(cache, Release.slug)} :
          /\ log' = log \o << Line("Collecting data for", ""),
                              Line("edx-platform ref", r.result) >>
          /\ rel' = [NoRel EXCEPT !.platformRef = r.result]
          /\ cache' = r.cache
          /\ pc' = "filtersPin"
          /\ UNCHANGED relIdx
    /\ UNCHANGED <<remoteVars, resolveVars, fnVars, componentCache, files, argv,
                   manifestEntries>>

\* collectForRelease, first step: the platform ref; without one the
\* function returns null and the loop goes on
ResolvePlatform ==
    /\ pc = "release"
    /\ \E r \in {resolveEdxPlatformRef(cache, Release.slug)} :
          IF r.result = Null
          THEN /\ log' = log \o << Line("Collecting data for", ""),
                                   Line("Could not find edx-platform branch", "") >>
               /\ rel' = NoRel
               /\ NextRelease
          ELSE /\ log' = log \o << Line("Collecting data for", ""),
                                   Line("edx-platform ref", r.result) >>
               /\ rel' = [NoRel EXCEPT !.platformRef = r.result]
               /\ cache' = r.cache
               /\ pc' = "filtersPin"
               /\ UNCHANGED relIdx
    /\ UNCHANGED <<remoteVars, resolveVars, fnVars, componentCache, files, argv,
                   manifestEntries>>

\* mutant: a version without a tag is warned about a second time
ResolveLib_warnsTwice(c, platformRef, lib) ==
    Bind(resolvePinnedVersion(c, platformRef, lib), LAMBDA p :
        IF p.pin.found /\ p.pin.version # ""
        THEN Bind(resolveLibRefFromVersion(p.cache, lib, p.pin.version), LAMBDA r :
                [version |-> p.pin.version,
                 ref |-> r.ref,
                 warning |-> IF r.ref # Null THEN <<>>
                             ELSE << lib \o " version " \o p.pin.version
                                        \o " found but no matching tag",
                                     lib \o " not pinned in requirements/production.txt" >>,
                 cache |-> r.cache])
        ELSE [version |-> p.pin.version,
              ref |-> Null,
              warning |-> << lib \o " not pinned in requirements/production.txt" >>,
              cache |-> p.cache])

\* the pin and the ref of one library: [version, ref, warning, cache]
ResolveLib(c, platformRef, lib) ==
    Bind(resolvePinnedVersion(c, platformRef, lib), LAMBDA p :
        IF p.pin.found /\ p.pin.version # ""
        THEN Bind(resolveLibRefFromVersion(p.cache, lib, p.pin.version), LAMBDA r :
                [version |-> p.pin.version,
                 ref |-> r.ref,
                 warning |-> IF r.ref # Null THEN <<>>
                             ELSE << lib \o " version " \o p.pin.version
                                        \o " found but no matching tag" >>,
                 cache |-> r.cache])
        ELSE [version |-> p.pin.version,
              ref |-> Null,
              warning |-> << lib \o " not pinned in requirements/production.txt" >>,
              cache |-> p.cache])

LibLines(lib, r) ==
    IF r.ref # Null
    THEN << Line(lib \o " ref", r.ref) >>
    ELSE << Line("warning", r.warning[1]) >>

ResolveFilters ==
    /\ pc = "filtersPin"
    /\ \E r \in {ResolveLib(cache, rel.platformRef, "openedx-filters")} :
          /\ rel' = [rel EXCEPT !.filtersVersion = r.version,
                                !.filtersRef = r.ref,
                                !.warnings = rel.warnings \o r.warning]
          /\ log' = log \o LibLines("openedx-filters", r)
          /\ cache' = r.cache
    /\ pc' = "eventsPin"
    /\ UNCHANGED <<remoteVars, resolveVars, fnVars, componentCache, files, argv, relIdx,
                   manifestEntries>>

ResolveEvents ==
    /\ pc = "eventsPin"
    /\ \E r \in {ResolveLib(cache, rel.platformRef, "openedx-events")} :
          /\ rel' = [rel EXCEPT !.eventsVersion = r.version,
                                !.eventsRef = r.ref,
                                !.warnings = rel.warnings \o r.warning]
          /\ log' = log \o LibLines("openedx-events", r)
          /\ cache' = r.cache
    /\ pc' = "plugins"
    /\ UNCHANGED <<remoteVars, resolveVars, fnVars, componentCache, files, argv, relIdx,
                   manifestEntries>>

\* collectPlugins for the release, returning normally
CollectPluginsStep ==
    /\ pc = "plugins"
    /\ \E st \in {collectPlugins(cache, componentCache, Release.slug,
                                 IF argv.dev THEN DevLimit ELSE 0)} :
          /\ cache' = st.cache
          /\ componentCache' = st.componentCache
          /\ files' = CachePut(files, PluginsOutputPath(Release.slug),
                               [mfes |-> st.mfes, pluginSlots |-> st.pluginSlots])
          /\ log' = (log \o << Line("Collecting plugin slots", "") >>) \o st.log
    /\ pc' = "filters"
    /\ UNCHANGED <<remoteVars, resolveVars, fnVars, argv, relIdx, rel, manifestEntries>>

\* collectFilters({ ref, outputPath }) for the release when a ref was
\* resolved, returning normally
CollectFiltersStep ==
    /\ pc = "filters"
    /\ IF rel.filtersRef # Null
       THEN \E st \in {collectFilters(cache, rel.filtersRef)} :
               /\ files' = CachePut(files, OutDir(Release.slug) \o "/filters.json",
                                    st.output)
               /\ cache' = st.cache
               /\ log' = Append(log, Line("Collecting filters", rel.filtersRef))
       ELSE /\ log' = Append(log, Line("Skipping filters", ""))
            /\ UNCHANGED <<files, cache>>
    /\ pc' = "events"
    /\ UNCHANGED <<remoteVars, resolveVars, fnVars, componentCache, argv, relIdx, rel,
                   manifestEntries>>

\* collectEvents for the release when a ref was resolved; collectEvents
\* of collect-events.ts takes no option: it reads the default branch and
\* writes data/events.json, or ends the process when openedx_events
\* cannot be listed
CollectEventsStep ==
    /\ pc = "events"
    /\ IF rel.eventsRef # Null
       THEN \E st \in {collectEvents} :
               IF st.exit = 0
               THEN /\ files' = CachePut(files, EventsOutputPath, st.output)
                    /\ log' = Append(log, Line("Collecting events", rel.eventsRef))
                    /\ pc' = "meta"
               ELSE /\ log' = log \o << Line("Collecting events", rel.eventsRef),
                                        Line("Error during collection", "events") >>
                    /\ pc' = "exit"
                    /\ UNCHANGED files
       ELSE /\ log' = Append(log, Line("Skipping events", ""))
            /\ pc' = "meta"
            /\ UNCHANGED files
    /\ UNCHANGED <<remoteVars, cache, resolveVars, fnVars, componentCache, argv, relIdx, rel,
                   manifestEntries>>

\* collectPlugins meets the failure it does not handle: the request for
\* the repositories of the organisation throws and the outer catch ends
\* the process, status 1.  (collectFilters reads through the gateway only,
\* which throws nothing; collectEvents is followed in CollectEventsStep.)
CollectorFatal ==
    /\ pc = "plugins"
    /\ pc' = "exit"
    /\ log' = Append(log, Line("Error during collection", pc))
    /\ UNCHANGED <<remoteVars, cache, resolveVars, fnVars, componentCache, files, argv, relIdx,
                   rel, manifestEntries>>

\* mutant: meta.json is written before the extraction steps are taken
WriteMeta_early ==
    /\ pc \in {"plugins", "meta"}
    /\ files' = CachePut(files, OutDir(Release.slug) \o "/meta.json",
                         [slug |-> Release.slug,
                          name |-> Release.name,
                          edxPlatformRef |-> rel.platformRef,
                          filtersVersion |-> rel.filtersVersion,
                          filtersRef |-> rel.filtersRef,
                          eventsVersion |-> rel.eventsVersion,
                          eventsRef |-> rel.eventsRef,
                          warnings |-> rel.warnings])
    /\ manifestEntries' = Append(manifestEntries,
                                 [slug |-> Release.slug,
                                  name |-> Release.name,
                                  edxPlatformRef |-> rel.platformRef,
                                  filtersRef |-> rel.filtersRef,
                                  eventsRef |-> rel.eventsRef])
    /\ NextRelease
    /\ UNCHANGED <<remoteVars, resolveVars, fnVars, componentCache, log, argv, rel>>

\* the end of collectForRelease and of the loop body: meta.json, the
\* manifest entry, clearCache()
WriteMeta ==
    /\ pc = "meta"
    /\ files' = CachePut(files, OutDir(Release.slug) \o "/meta.json",
                         [slug |-> Release.slug,
                          name |-> Release.name,
                          edxPlatformRef |-> rel.platformRef,
                          filtersVersion |-> rel.filtersVersion,
                          filtersRef |-> rel.filtersRef,
                          eventsVersion |-> rel.eventsVersion,
                          eventsRef |-> rel.eventsRef,
                          warnings |-> rel.warnings])
    /\ manifestEntries' = Append(manifestEntries,
                                 [slug |-> Release.slug,
                                  name |-> Release.name,
                                  edxPlatformRef |-> rel.platformRef,
                                  filtersRef |-> rel.filtersRef,
                                  eventsRef |-> rel.eventsRef])
    /\ NextRelease
    /\ UNCHANGED <<remoteVars, resolveVars, fnVars, componentCache, log, argv, rel>>

\* collectReleases after the loop: the manifest, merged with the existing
\* one in a single-release run
WriteManifest ==
    /\ pc = "manifest"
    /\ files' = CachePut(files, ManifestPath,
                         [releases |->
                             IF argv.release = Null \/ argv.release = ""
                             THEN manifestEntries
                             ELSE mergeManifestEntries(
                                      loadExistingManifestEntries(files, ManifestPath),
                                      manifestEntries)])
    /\ log' = Append(log, [msg |-> "Release collection complete", release |-> Null,
                           text |-> ""])
    /\ pc' = "done"
    /\ UNCHANGED <<remoteVars, cache, resolveVars, fnVars, componentCache, argv, relIdx, rel,
                   manifestEntries>>

\* ---------------------------------------------------------------------
\* Specification SpecReleases: one run of collect-releases
\* ---------------------------------------------------------------------
Argvs ==
    { [release |-> r, dev |-> FALSE, dryRun |-> FALSE] :
         r \in {Null, "sumac", "teak", "ulmo", "zebra"} }
    \cup { [release |-> Null, dev |-> TRUE, dryRun |-> FALSE],
           [release |-> Null, dev |-> FALSE, dryRun |-> TRUE] }

PlatformBranchUniverse ==
    { <<"edx-platform", "open-release/sumac.master">>,
      <<"edx-platform", "release/teak">> }

MfeBranches ==
    { <<"frontend-app-learning", "release/sumac">>,
      <<"frontend-app-learning", "release/teak">>,
      <<"frontend-app-account", "release/sumac">> }

LibTagUniverse ==
    { <<"openedx-filters", "v1.0.0">>,
      <<"openedx-events", "9.0.0">> }

RequirementsDocs ==
    { "openedx-filters==1.0.0\nopenedx-events==9.0.0",
      "openedx-events==9.0.0" }

PlatformRefs == { "open-release/sumac.master", "release/teak" }

\* the learning MFE pins the header 1.2.3 and the footer ~14.0 in both
\* releases, the account MFE the header ^1.2.3; the header has a slot at
\* v1.2.3, the footer has no tag v14.0
MfeTrees ==
    [k \in { RKey("frontend-app-learning", ref, "src/plugin-slots") :
                ref \in {"release/sumac", "release/teak"} }
       |-> DirAnswer(<< DirEntry("dir", "CourseSlot"), DirEntry("file", "index.js") >>)]
    @@ [k \in { RKey("frontend-app-learning", ref, "package.json") :
                   ref \in {"release/sumac", "release/teak"} }
          |-> FileAnswer("{\"dependencies\":{\"@openedx/frontend-component-header\":\"1.2.3\"},\"peerDependencies\":{\"@openedx/frontend-component-footer\":\"~14.0\"}}")]
    @@ (RKey("frontend-app-account", "release/sumac", "package.json") :>
           FileAnswer("{\"dependencies\":{\"@edx/frontend-component-header\":\"^1.2.3\"}}"))
    @@ HeaderTree

ManifestEntry(slug, name, platformRef) ==
    [slug |-> slug, name |-> name, edxPlatformRef |-> platformRef,
     filtersRef |-> Null, eventsRef |-> Null]

\* manifests left by earlier runs
ExistingManifests ==
    { << ManifestEntry("redwood", "Redwood", "open-release/redwood.master"),
         ManifestEntry("sumac", "Sumac", "release/sumac"),
         ManifestEntry("quince", "Quince", "open-release/quince.master") >>,
      << ManifestEntry("teak", "Teak", "release/teak.master") >> }

FilterClassNamed(name) == CHOOSE d \in FilterClassDefs : d.name = name

\* openedx-filters at the tag v1.0.0
ReleaseFiltersTree ==
    FiltersTree("v1.0.0",
                << FilterClassNamed("LibraryBlockRequested"),
                   FilterClassNamed("CourseEnrollmentStarted") >>,
                << FilterClassNamed("ShortType") >>)

SignalNamed(name) == CHOOSE d \in SignalDefs : d.variableName = name

\* a data.py declaring the classes of names
RECURSIVE RenderDataFile(_)
RenderDataFile(names) ==
    IF names = <<>> THEN "import attr\n\n"
    ELSE RenderDataFile(SubSeq(names, 1, Len(names) - 1))
         \o "@attr.s(frozen=True)\nclass " \o names[Len(names)] \o ":\n"
         \o "    \"\"\"\n    Data of " \o names[Len(names)] \o "\n    \"\"\"\n\n"

EventsEntry(type, name) ==
    [type |-> type, name |-> name, path |-> "openedx_events/" \o name]

\* openedx-events at its default branch: learning with signals.py and
\* data.py, then enterprise without signals.py, then content_authoring
\* without data.py
EventsTree ==
    LET EKey(path) == <<"openedx", "openedx-events", DefaultBranch, path>>
    IN (EKey("openedx_events") :>
            DirAnswer(<< EventsEntry("dir", "__pycache__"),
                         EventsEntry("file", "__init__.py"),
                         EventsEntry("dir", "learning"),
                         EventsEntry("dir", "tests"),
                         EventsEntry("dir", "enterprise"),
                         EventsEntry("dir", "content_authoring") >>))
       @@ (EKey("openedx_events/learning/signals.py") :>
              FileAnswer(RenderSignals(<< SignalNamed("ENROLLMENT_CHANGED"),
                                          SignalNamed("SESSION_STARTED") >>)))
       @@ (EKey("openedx_events/learning/data.py") :>
              FileAnswer(RenderDataFile(<< "CourseData", "UserData" >>)))
       @@ (EKey("openedx_events/tests/signals.py") :>
              FileAnswer(RenderSignals(<< SignalNamed("SUBSIDY_REDEEMED") >>)))
       @@ (EKey("openedx_events/content_authoring/signals.py") :>
              FileAnswer(RenderSignals(<< SignalNamed("COURSE_CREATED") >>)))
       @@ (EKey("openedx_events/enterprise/data.py") :>
              FileAnswer(RenderDataFile(<< "SubsidyRedemption" >>)))

InitReleases ==
    /\ remoteBranches \in { bs \cup MfeBranches : bs \in SUBSET PlatformBranchUniverse }
    /\ remoteTags \in SUBSET LibTagUniverse
    /\ \E events \in {EventsTree, NoContent} :
          \/ remoteContent = MfeTrees @@ ReleaseFiltersTree @@ events
          \/ \E d \in RequirementsDocs :
                remoteContent =
                    [k \in { RKey("edx-platform", ref, BaseTxtPath) : ref \in PlatformRefs }
                       |-> FileAnswer(d)] @@ MfeTrees @@ ReleaseFiltersTree @@ events
    /\ cache = EmptyCache
    /\ ResolveIdle
    /\ FnIdle
    /\ componentCache = EmptyCache
    /\ \/ files = NoFiles
       \/ \E m \in ExistingManifests : files = (ManifestPath :> [releases |-> m])
    /\ log = <<>>
    /\ pc = "start"
    /\ argv \in Argvs
    /\ relIdx = 0
    /\ rel = NoRel
    /\ manifestEntries = <<>>

NextReleases ==
    \/ StartRun
    \/ ResolvePlatform
    \/ ResolveFilters
    \/ ResolveEvents
    \/ CollectPluginsStep
    \/ CollectFiltersStep
    \/ CollectEventsStep
    \/ CollectorFatal
    \/ WriteMeta
    \/ WriteManifest

SpecReleases == InitReleases /\ [][NextReleases]_vars

\* ---------------------------------------------------------------------
\* Claims C4, C5 and C6 (checked under SpecReleases)
\* ---------------------------------------------------------------------
RunStarted == pc \notin {"idle", "start"} /\ ~argv.dryRun

\* no candidate of the release exists in edx-platform, branch or tag
Unresolvable(slug) ==
    \A i \in DOMAIN BRANCH_CANDIDATES(slug) :
        <<"edx-platform", BRANCH_CANDIDATES(slug)[i]>> \notin remoteBranches \cup remoteTags

\* the console lines of collectForRelease for a release
LinesOf(slug) ==
    { i \in DOMAIN log : "release" \in DOMAIN log[i] /\ log[i].release = slug }

HasLine(slug, msg) == \E i \in LinesOf(slug) : log[i].msg = msg

\* the lines that tell of a step taken after the platform ref was resolved
WorkMsgs ==
    { "edx-platform ref", "openedx-filters ref", "openedx-events ref", "warning",
      "Collecting plugin slots", "Collecting filters", "Skipping filters",
      "Collecting events", "Skipping events", "Error during collection" }

FilesOf(slug) == { p \in DOMAIN files : startsWith(p, OutDir(slug) \o "/") }

MetaPath(slug) == OutDir(slug) \o "/meta.json"

\* C4: a release whose platform revision cannot be resolved is skipped
\* entirely: none of its steps (pins, plugin slots, filters, events) is
\* started, no file is written under its directory, the run holds no
\* manifest entry for it, and the run goes on with the next release.
C4_UnresolvedReleaseSkippedEntirely ==
    RunStarted =>
        \A j \in DOMAIN RunReleases :
            LET slug == RunReleases[j].slug IN
            Unresolvable(slug) =>
                /\ \A i \in LinesOf(slug) : log[i].msg \notin WorkMsgs
                /\ FilesOf(slug) = {}
                /\ \A k \in DOMAIN manifestEntries : manifestEntries[k].slug # slug
                /\ relIdx = j => pc = "release"
                /\ relIdx > j => HasLine(slug, "Could not find edx-platform branch")
                /\ (relIdx > j /\ j < Len(RunReleases)) =>
                      \/ relIdx = j + 1 /\ pc = "release"
                      \/ HasLine(RunReleases[j + 1].slug, "Collecting data for")

C4_Witness ==
    /\ pc = "done"
    /\ argv.release = Null
    /\ ~argv.dryRun
    /\ Unresolvable("sumac")
    /\ HasLine("sumac", "Could not find edx-platform branch")
    /\ MetaPath("teak") \in DOMAIN files
    /\ Len(files[ManifestPath].releases) = 1
    /\ files[ManifestPath].releases[1].slug = "teak"

About(lib, warnings) == { i \in DOMAIN warnings : startsWith(warnings[i], lib \o " ") }

\* one warning about a library exactly when its ref is absent, none else
WarningsMatch(warnings, filtersRef, eventsRef) ==
    /\ Cardinality(About("openedx-filters", warnings)) = (IF filtersRef = Null THEN 1 ELSE 0)
    /\ Cardinality(About("openedx-events", warnings)) = (IF eventsRef = Null THEN 1 ELSE 0)
    /\ DOMAIN warnings = About("openedx-filters", warnings) \cup About("openedx-events", warnings)

\* C5: once the platform ref is resolved, a library whose pin or ref is
\* not resolved costs only its own sub-collection: one warning about it is
\* recorded, plugin slots and the other library are still collected, and
\* meta.json is written unless a collector itself ends the process; a
\* library is collected only with a ref, and the warnings name a library
\* exactly when its ref is absent from the meta.
C5_LibraryFailureSkipsOnlyThatLibrary ==
    RunStarted =>
        \A j \in DOMAIN RunReleases :
            LET slug == RunReleases[j].slug
                current == relIdx = j
                written == MetaPath(slug) \in DOMAIN files
                meta == files[MetaPath(slug)]
            IN HasLine(slug, "edx-platform ref") =>
                /\ (current /\ pc \in {"plugins", "filters", "events", "meta"}) =>
                      WarningsMatch(rel.warnings, rel.filtersRef, rel.eventsRef)
                /\ current =>
                      /\ HasLine(slug, "Collecting filters") => rel.filtersRef # Null
                      /\ HasLine(slug, "Collecting events") => rel.eventsRef # Null
                      /\ pc = "exit" => log[Len(log)].msg = "Error during collection"
                      /\ pc \in {"filters", "events", "meta"} =>
                            HasLine(slug, "Collecting plugin slots")
                /\ relIdx > j => written
                /\ written =>
                      /\ WarningsMatch(meta.warnings, meta.filtersRef, meta.eventsRef)
                      /\ PluginsOutputPath(slug) \in DOMAIN files
                      /\ HasLine(slug, "Collecting plugin slots")
                      /\ HasLine(slug, "Collecting filters") <=> meta.filtersRef # Null
                      /\ HasLine(slug, "Collecting events") <=> meta.eventsRef # Null
                      /\ (OutDir(slug) \o "/filters.json") \in DOMAIN files
                            <=> meta.filtersRef # Null

C5_Witness ==
    /\ pc = "done"
    /\ MetaPath("sumac") \in DOMAIN files
    /\ files[MetaPath("sumac")].filtersRef = Null
    /\ files[MetaPath("sumac")].filtersVersion = "1.0.0"
    /\ files[MetaPath("sumac")].eventsRef = "9.0.0"
    /\ files[MetaPath("sumac")].warnings
          = << "openedx-filters version 1.0.0 found but no matching tag" >>
    /\ HasLine("sumac", "Collecting plugin slots")
    /\ HasLine("sumac", "Collecting events")
    /\ ~HasLine("sumac", "Collecting filters")

Slugs(entries) == { entries[i].slug : i \in DOMAIN entries }

Range(entries) == { entries[i] : i \in DOMAIN entries }

KnownIndex(slug) == CHOOSE i \in DOMAIN KNOWN_RELEASES : KNOWN_RELEASES[i].slug = slug

\* known releases first and in the order of KNOWN_RELEASES, the others
\* after them in ascending order of slug
CanonicalOrder(entries) ==
    \A a \in DOMAIN entries : \A b \in DOMAIN entries :
        a < b =>
            /\ ~(IsUnknown(entries[a]) /\ IsKnown(entries[b]))
            /\ (IsKnown(entries[a]) /\ IsKnown(entries[b])) =>
                  KnownIndex(entries[a].slug) < KnownIndex(entries[b].slug)
            /\ (IsUnknown(entries[a]) /\ IsUnknown(entries[b])) =>
                  SlugLess(entries[a].slug, entries[b].slug, 1)

SecondRun ==
    /\ pc = "done"
    /\ fcall = NoCall
    /\ finput' = files
    /\ fcall' = [fn |-> "collectReleases", run |-> 2]
    /\ pc' = "start"
    /\ cache' = EmptyCache
    /\ componentCache' = EmptyCache
    /\ log' = <<>>
    /\ relIdx' = 0
    /\ rel' = NoRel
    /\ manifestEntries' = <<>>
    /\ UNCHANGED <<remoteVars, resolveVars, files, argv>>

NextRerun ==
    \/ StartRun
    \/ ResolvePlatform
    \/ ResolveFilters
    \/ ResolveEvents
    \/ CollectPluginsStep
    \/ CollectFiltersStep
    \/ CollectEventsStep
    \/ CollectorFatal
    \/ WriteMeta
    \/ WriteManifest
    \/ SecondRun

SpecRerun == InitReleases /\ [][NextRerun]_vars

\* ---------------------------------------------------------------------
\* Claim C15 (checked under SpecRerun)
\* ---------------------------------------------------------------------
SecondRunDone == fcall.fn = "collectReleases" /\ pc = "done"

ExitLine == log[Len(log)]

\* the request for the repositories of the organisation threw
OrgListingThrew ==
    ExitLine.msg = "Error during collection" /\ ExitLine.text = "plugins"

\* the request for the openedx_events directory threw or answered a file
EventsListingMissing ==
    /\ ExitLine.msg = "Error during collection"
    /\ ExitLine.text = "events"
    /\ EventsContent("openedx_events").kind # "dir"

\* --release= names no known release: nothing was requested or written
UnknownReleaseGiven ==
    /\ Len(RunReleases) = 0
    /\ ExitLine.msg = "Unknown release"
    /\ cache = EmptyCache

\* every release of the run was gone through and the manifest written
RunCompleted ==
    /\ relIdx = Len(RunReleases) + 1
    /\ ManifestPath \in DOMAIN files
    /\ \A i \in DOMAIN RunReleases : HasLine(RunReleases[i].slug, "Collecting data for")

MaxGatewayCalls == 3      \* gateway calls in one behaviour of SpecGateway

RetryAttempts == 3        \* README.md: "3 attempts with exponential backoff"

GwRepo == "frontend-app-learning"
GwRef == "release/sumac"

\* a file, a directory and a path that does not exist
GwPaths == { "package.json", "src/plugin-slots", "README.md" }

\* a branch, a tag and a ref that does not exist
GwRefs == { "release/sumac", "v1.0.0", "open-release/sumac.master" }

\* the remote while it can be reached
GwRemote ==
    [branches |-> { <<GwRepo, "release/sumac">> },
     tags |-> { <<GwRepo, "v1.0.0">> },
     content |-> (<<"openedx", GwRepo, GwRef, "package.json">> :>
                      FileAnswer("{\"name\":\"mfe\"}"))
                 @@ (<<"openedx", GwRepo, GwRef, "src/plugin-slots">> :>
                        DirAnswer(<< DirEntry("dir", "CourseSlot") >>))]

\* the requests that one call of getTextFile or listDir issues: none on a
\* cache hit, else one repos.getContent; there is no loop around it
ContentRequests(c, key) ==
    IF key \in DOMAIN c THEN <<>> ELSE << "repos.getContent" >>

\* the requests that one call of refExists issues: none on a cache hit,
\* else repos.getBranch and, when that throws, git.getRef
RefExistsRequests(c, owner, repo, ref) ==
    IF RefExistsKey(owner, repo, ref) \in DOMAIN c THEN <<>>
    ELSE IF <<repo, ref>> \in remoteBranches THEN << "repos.getBranch" >>
    ELSE << "repos.getBranch", "git.getRef" >>

\* repos.getContent for the path throws (status 404, or no answer at all)
ContentThrows(path) == <<"openedx", GwRepo, GwRef, path>> \notin DOMAIN remoteContent

NotSeen == [seen |-> FALSE]

\* the answer that the first completed call of id gave in this lifetime
\* of the cache
Before(id) == IF id \in DOMAIN finput.first THEN finput.first[id] ELSE NotSeen

Remember(id, answer) ==
    IF id \in DOMAIN finput.first THEN finput
    ELSE [finput EXCEPT !.first = CachePut(finput.first, id,
                                           [seen |-> TRUE, value |-> answer])]

InitGateway ==
    /\ remoteBranches = GwRemote.branches
    /\ remoteTags = GwRemote.tags
    /\ remoteContent = GwRemote.content
    /\ cache = EmptyCache
    /\ rcall = NoCall
    /\ ncalls = 0
    /\ finput = [down |-> FALSE, first |-> [k \in {} |-> NotSeen]]
    /\ fcall = NoCall
    /\ PlugIdle
    /\ OrchIdle

GatewayGetTextFile ==
    /\ ncalls < MaxGatewayCalls
    /\ \E path \in GwPaths :
          \E r \in {getTextFile(cache, "openedx", GwRepo, path, GwRef)} :
             /\ fcall' = [fn |-> "getTextFile", path |-> path, answer |-> r.text,
                          before |-> Before(<<"getTextFile", path>>),
                          requests |->
                              ContentRequests(cache,
                                              cacheKey("openedx", GwRepo, path, GwRef)),
                          threw |-> ContentThrows(path)]
             /\ finput' = Remember(<<"getTextFile", path>>, r.text)
             /\ cache' = r.cache
    /\ ncalls' = ncalls + 1
    /\ UNCHANGED <<remoteVars, rcall, plugVars, orchVars>>

GatewayListDir ==
    /\ ncalls < MaxGatewayCalls
    /\ \E path \in GwPaths :
          \E r \in {listDir(cache, "openedx", GwRepo, path, GwRef)} :
             /\ fcall' = [fn |-> "listDir", path |-> path, answer |-> r.entries,
                          before |-> Before(<<"listDir", path>>),
                          requests |->
                              ContentRequests(cache,
                                  cacheKey("openedx", GwRepo, path, GwRef) \o ":dir"),
                          threw |-> ContentThrows(path)]
             /\ finput' = Remember(<<"listDir", path>>, r.entries)
             /\ cache' = r.cache
    /\ ncalls' = ncalls + 1
    /\ UNCHANGED <<remoteVars, rcall, plugVars, orchVars>>

GatewayRefExists ==
    /\ ncalls < MaxGatewayCalls
    /\ \E ref \in GwRefs :
          \E r \in {RefExists(cache, "openedx", GwRepo, ref)} :
             /\ fcall' = [fn |-> "refExists", path |-> ref, answer |-> r.ans,
                          before |-> Before(<<"refExists", ref>>),
                          requests |-> RefExistsRequests(cache, "openedx", GwRepo, ref),
                          threw |-> <<GwRepo, ref>> \notin remoteBranches \cup remoteTags]
             /\ finput' = Remember(<<"refExists", ref>>, r.ans)
             /\ cache' = r.cache
    /\ ncalls' = ncalls + 1
    /\ UNCHANGED <<remoteVars, rcall, plugVars, orchVars>>

\* the remote goes out of reach: every request throws
RemoteOutage ==
    /\ ~finput.down
    /\ remoteBranches' = {}
    /\ remoteTags' = {}
    /\ remoteContent' = NoContent
    /\ finput' = [finput EXCEPT !.down = TRUE]
    /\ UNCHANGED <<cache, rcall, ncalls, fcall, plugVars, orchVars>>

RemoteRecovers ==
    /\ finput.down
    /\ remoteBranches' = GwRemote.branches
    /\ remoteTags' = GwRemote.tags
    /\ remoteContent' = GwRemote.content
    /\ finput' = [finput EXCEPT !.down = FALSE]
    /\ UNCHANGED <<cache, rcall, ncalls, fcall, plugVars, orchVars>>

\* clearCache(): a new lifetime of the cache
GatewayClearCache ==
    /\ cache # EmptyCache
    /\ cache' = EmptyCache
    /\ finput' = [finput EXCEPT !.first = [k \in {} |-> NotSeen]]
    /\ fcall' = NoCall
    /\ UNCHANGED <<remoteVars, rcall, ncalls, plugVars, orchVars>>

NextGateway ==
    \/ GatewayGetTextFile
    \/ GatewayListDir
    \/ GatewayRefExists
    \/ RemoteOutage
    \/ RemoteRecovers
    \/ GatewayClearCache

SpecGateway == InitGateway /\ [][NextGateway]_vars

\* ---------------------------------------------------------------------
\* Claim C17 (checked under SpecGateway)
\* ---------------------------------------------------------------------
GatewayCalled == fcall.fn \in {"getTextFile", "listDir", "refExists"}

\* the call went to the remote and its last request threw
CallFailed == GatewayCalled /\ fcall.requests # <<>> /\ fcall.threw

TimesIssued(requests, name) == Cardinality({ i \in DOMAIN requests : requests[i] = name })

\* C17: a gateway call whose request failed has issued that request
\* RetryAttempts times before the failure was taken as final.
C17_FailedRequestRetried ==
    CallFailed =>
        TimesIssued(fcall.requests, fcall.requests[Len(fcall.requests)]) = RetryAttempts

\* a getTextFile call for an existing file while the remote is out of reach
C17_Witness ==
    /\ CallFailed
    /\ finput.down
    /\ fcall.fn = "getTextFile"
    /\ fcall.path = "package.json"
    /\ fcall.answer = Null
    /\ fcall.requests = << "repos.getContent" >>

\* ---------------------------------------------------------------------
\* Claim C19 (checked under SpecGateway)
\* ---------------------------------------------------------------------
\* the same call was completed before in this lifetime of the cache
CalledBefore == GatewayCalled /\ fcall.before.seen

\* the path holds an entry of the other kind: a directory for
\* getTextFile, a file for listDir
OtherKind ==
    /\ <<"openedx", GwRepo, GwRef, fcall.path>> \in DOMAIN GwRemote.content
    /\ \/ /\ fcall.fn = "getTextFile"
          /\ GwRemote.content[<<"openedx", GwRepo, GwRef, fcall.path>>].kind = "dir"
       \/ /\ fcall.fn = "listDir"
          /\ GwRemote.content[<<"openedx", GwRepo, GwRef, fcall.path>>].kind = "file"

\* C19: a call that was completed before in this lifetime of the cache
\* gives the answer it gave then and issues no remote request.
C19_CompletedCallServedFromCache ==
    CalledBefore => fcall.answer = fcall.before.value /\ fcall.requests = <<>>

\* what holds of the code: the answer is the same, and no request is
\* issued unless the path holds an entry of the other kind
StoredAnswerServed ==
    CalledBefore => /\ fcall.answer = fcall.before.value
                    /\ ~OtherKind => fcall.requests = <<>>

\* getTextFile called a second time for a path that is a directory
C19_Witness ==
    /\ CalledBefore
    /\ fcall.fn = "getTextFile"
    /\ fcall.path = "src/plugin-slots"
    /\ ~finput.down
    /\ fcall.answer = Null
    /\ fcall.requests = << "repos.getContent" >>

\* ---------------------------------------------------------------------
\* Claim C18 (checked under SpecReleases)
\* ---------------------------------------------------------------------
\* the step of collectForRelease that a console line tells of, "" for a
\* line that tells of none; a library's pin and revision are resolved in
\* one step, the revision being looked up with the version the pin gave
StepOf(line) ==
    IF line.msg = "Collecting data for" THEN "begin"
    ELSE IF line.msg = "Could not find edx-platform branch" THEN "skip"
    ELSE IF line.msg = "edx-platform ref" THEN "resolve-platform-revision"
    ELSE IF line.msg = "openedx-filters ref"
            \/ (line.msg = "warning" /\ startsWith(line.text, "openedx-filters "))
    THEN "resolve-filters-pin-and-revision"
    ELSE IF line.msg = "openedx-events ref"
            \/ (line.msg = "warning" /\ startsWith(line.text, "openedx-events "))
    THEN "resolve-events-pin-and-revision"
    ELSE IF line.msg = "Collecting plugin slots" THEN "extract-plugin-slots"
    ELSE IF line.msg \in {"Collecting filters", "Skipping filters"} THEN "extract-filters"
    ELSE IF line.msg \in {"Collecting events", "Skipping events"} THEN "extract-events"
    ELSE ""

StepChain ==
    << "begin", "resolve-platform-revision", "resolve-filters-pin-and-revision",
       "resolve-events-pin-and-revision", "extract-plugin-slots", "extract-filters",
       "extract-events" >>

\* the steps taken for the release so far, in the order of the console
StepsOf(slug) ==
    Bind(SelectSeq(log, LAMBDA l : /\ "release" \in DOMAIN l
                                   /\ l.release = slug
                                   /\ StepOf(l) # ""),
         LAMBDA ls : [i \in DOMAIN ls |-> StepOf(ls[i])])

IsPrefix(s, t) == Len(s) <= Len(t) /\ s = SubSeq(t, 1, Len(s))

\* the position of the run inside a release after n steps of the chain
PcAfter ==
    << "filtersPin", "filtersPin", "eventsPin", "plugins", "filters", "events", "meta" >>

\* the version that the tag found for a library stands for
TagOfVersion(version, ref) == ref = "v" \o version \/ ref = version

MetaComplete(slug) ==
    LET meta == files[MetaPath(slug)] IN
    /\ StepsOf(slug) = StepChain
    /\ PluginsOutputPath(slug) \in DOMAIN files
    /\ meta.filtersRef # Null =>
          /\ OutDir(slug) \o "/filters.json" \in DOMAIN files
          /\ TagOfVersion(meta.filtersVersion, meta.filtersRef)
    /\ meta.eventsRef # Null =>
          /\ EventsOutputPath \in DOMAIN files
          /\ TagOfVersion(meta.eventsVersion, meta.eventsRef)

\* C18: the steps of a release whose platform ref resolves are taken once
\* each in the order of StepChain, meta.json coming last, after the
\* plugin-slot, filter and event extraction of that release; a release
\* is finished (skipped, or its meta.json written) before the next one
\* begins, and a release that was not reached yet has taken no step.
C18_StepsInOrderMetaLast ==
    RunStarted /\ Len(RunReleases) > 0 =>
        \A j \in DOMAIN RunReleases :
            LET slug == RunReleases[j].slug
                steps == StepsOf(slug)
            IN /\ steps = << "begin", "skip" >> \/ IsPrefix(steps, StepChain)
               /\ MetaPath(slug) \in DOMAIN files => MetaComplete(slug)
               /\ j > relIdx => steps = <<>> /\ FilesOf(slug) = {}
               /\ j < relIdx =>
                     \/ steps = << "begin", "skip" >> /\ FilesOf(slug) = {}
                     \/ steps = StepChain /\ MetaPath(slug) \in DOMAIN files
               /\ (j = relIdx /\ pc # "exit") =>
                     /\ MetaPath(slug) \notin DOMAIN files
                     /\ IF steps = <<>> THEN pc = "release"
                        ELSE /\ IsPrefix(steps, StepChain)
                             /\ pc = PcAfter[Len(steps)]

\* a full run in which sumac was skipped and teak went through every step
C18_Witness ==
    /\ pc = "done"
    /\ argv.release = Null
    /\ ~argv.dryRun
    /\ StepsOf("sumac") = << "begin", "skip" >>
    /\ StepsOf("teak") = StepChain
    /\ { MetaPath("teak"), PluginsOutputPath("teak"), OutDir("teak") \o "/filters.json",
         EventsOutputPath } \subseteq DOMAIN files
    /\ files[MetaPath("teak")].filtersRef = "v1.0.0"
    /\ files[MetaPath("teak")].eventsRef = "9.0.0"

\* ---------------------------------------------------------------------
\* Claim C20 (checked under SpecReleases)
\* ---------------------------------------------------------------------
\* the releases of the run that were gone through before the current one
Finished(j) == RunStarted /\ j \in DOMAIN RunReleases /\ j < relIdx

\* C20: whenever a release was gone through (its meta.json written, or
\* skipped for want of a platform branch) and the run stands before the
\* next release or before the manifest, the gateway cache is empty: the
\* next release starts with no result of an earlier one in the cache.
C20_CacheEmptiedAfterEachRelease ==
    /\ [](pc \in {"release", "manifest", "done"} => cache = EmptyCache)
    /\ [][relIdx' # relIdx => cache' = EmptyCache]_vars

\* the run stands before teak with an empty cache, sumac having been
\* skipped after its three candidate branches were asked for
C20_Witness ==
    /\ pc = "release"
    /\ argv.release = Null
    /\ relIdx = 2
    /\ Finished(1)
    /\ HasLine("sumac", "Could not find edx-platform branch")
    /\ cache = EmptyCache

\* ---------------------------------------------------------------------
\* Claim C21 (checked under SpecReleases)
\* ---------------------------------------------------------------------
\* the calls of collectComponent made so far in the run
ComponentCalls(componentId, ref) ==
    { i \in DOMAIN log : /\ log[i].msg = "Collecting plugin slots from"
                         /\ log[i].repo = componentId
                         /\ log[i].ref = ref }

ComponentIds == { "frontend-component-header", "frontend-component-footer" }

ComponentRefs == { "v1.2.3", "v14.0.0" }

\* C21: within one run collectComponent is called at most once for a
\* component and version, whatever the number of MFEs and releases that
\* pin that version.
C21_ComponentExtractedOncePerKey ==
    \A componentId \in ComponentIds : \A ref \in ComponentRefs :
        Cardinality(ComponentCalls(componentId, ref)) <= 1

\* what holds of the code: a version whose extraction gave slots is
\* extracted once and kept across the releases of the run, and every MFE
\* that pins it gets those slots under its own mfeId and mfeName
ExtractedComponentKept ==
    /\ Cardinality(ComponentCalls("frontend-component-header", "v1.2.3")) <= 1
    /\ ComponentCalls("frontend-component-header", "v1.2.3") # {}
          => "header:1.2.3" \in DOMAIN componentCache
    /\ \A path \in DOMAIN files :
          "pluginSlots" \in DOMAIN files[path] =>
              \A i \in DOMAIN files[path].pluginSlots :
                  LET slot == files[path].pluginSlots[i] IN
                  slot.type = "header" =>
                      /\ slot.id = componentCache["header:1.2.3"].pluginSlots[1].id
                      /\ slot.sourceUrl
                            = componentCache["header:1.2.3"].pluginSlots[1].sourceUrl
                      /\ slot.mfeId \in {"frontend-app-learning", "frontend-app-account"}
                      /\ slot.mfeName = formatName(slot.mfeId)

\* the footer pinned as ~14.0 (tag v14.0.0 after cleanVersion) gives no
\* slots: collectComponent was called for sumac and once more for teak,
\* while the header at v1.2.3, pinned by three MFE refs, was extracted once
C21_Witness ==
    /\ pc = "done"
    /\ argv.release = Null
    /\ Cardinality(ComponentCalls("frontend-component-footer", "v14.0.0")) = 2
    /\ Cardinality(ComponentCalls("frontend-component-header", "v1.2.3")) = 1
    /\ { PluginsOutputPath("sumac"), PluginsOutputPath("teak") } \subseteq DOMAIN files
\* ---------------------------------------------------------------------
\* Claim C22 (checked under SpecResolve)
\* ---------------------------------------------------------------------
\* the refs handed to refExists by the last resolver call, in call order
ProbedRefs == [i \in DOMAIN rcall.probes |-> rcall.probes[i].ref]

\* C22: within one resolver call the probes are the candidates in
\* priority order from the first on, each at most once; every probe but
\* the last answered false (nothing is probed after a candidate was
\* found, and a false answer is not asked again), and the call ends on
\* the first true answer or after the third candidate.
C22_ProbesOncePriorityOrder ==
    rcall.fn \in {"resolveEdxPlatformRef", "resolveMfeRef"} =>
        LET cs == ClaimCandidates(rcall.slug)
            n == Len(rcall.probes)
        IN /\ n \in 1..3
           /\ ProbedRefs = SubSeq(cs, 1, n)
           /\ \A i, j \in 1..n : i # j => ProbedRefs[i] # ProbedRefs[j]
           /\ \A i \in 1..(n - 1) : ~rcall.probes[i].ans
           /\ n < 3 => rcall.probes[n].ans

\* the second candidate was found: the first was probed once, the third,
\* which exists too, was not probed at all
C22_Witness ==
    /\ rcall.fn = "resolveEdxPlatformRef"
    /\ rcall.slug = "sumac"
    /\ ExistsRemotely("edx-platform", "release/sumac")
    /\ Len(rcall.probes) = 2
    /\ rcall.probes[1] = [ref |-> "open-release/sumac.master", ans |-> FALSE]
    /\ rcall.probes[2] = [ref |-> "release/sumac.master", ans |-> TRUE]
\* ---------------------------------------------------------------------
\* Specification SpecLibRef: resolveLibRefFromVersion over the tags and
\* branches that a library repository may carry
\* ---------------------------------------------------------------------
LibRepo == "openedx-filters"

\* undefined, the empty string, and two versions that may exist with and
\* without the v prefix, as a tag or as a branch
LibVersions == { Null, "", "5.1.0", "9.0.0" }

LibRefTagUniverse == { <<LibRepo, "v5.1.0">>, <<LibRepo, "5.1.0">>, <<LibRepo, "v9.0.0">> }
LibRefBranchUniverse == { <<LibRepo, "5.1.0">>, <<LibRepo, "9.0.0">> }

InitLibRef ==
    /\ remoteBranches \in SUBSET LibRefBranchUniverse
    /\ remoteTags \in SUBSET LibRefTagUniverse
    /\ remoteContent = NoContent
    /\ cache = EmptyCache
    /\ ResolveIdle
    /\ PlugIdle
    /\ OrchIdle
    /\ FnIdle

CallResolveLibRefFromVersion ==
    \E version \in LibVersions :
        LET r == resolveLibRefFromVersion(cache, LibRepo, version) IN
        /\ ncalls < MaxCalls
        /\ ncalls' = ncalls + 1
        /\ cache' = r.cache
        /\ rcall' = [fn |-> "resolveLibRefFromVersion", repo |-> LibRepo,
                     version |-> version, result |-> r.ref, probes |-> r.probes]
        /\ UNCHANGED <<plugVars, orchVars, remoteVars, fnVars>>

NextLibRef ==
    \/ CallResolveLibRefFromVersion
    \/ CallClearCache

SpecLibRef == InitLibRef /\ [][NextLibRef]_vars

\* ---------------------------------------------------------------------
\* Claim C23 (checked under SpecLibRef)
\* ---------------------------------------------------------------------
\* C23: resolveLibRefFromVersion(repo, version) probes v{version}, then
\* {version}, and returns the first of the two that exists as a branch or
\* a tag, null when neither does; for an undefined or empty version it
\* returns null and probes nothing.
C23_LibRefVPrefixedFirst ==
    rcall.fn = "resolveLibRefFromVersion" =>
        IF rcall.version = Null \/ rcall.version = ""
        THEN rcall.result = Null /\ rcall.probes = <<>>
        ELSE LET vRef == "v" \o rcall.version
                 vThere == ExistsRemotely(rcall.repo, vRef)
                 bareThere == ExistsRemotely(rcall.repo, rcall.version)
             IN /\ rcall.probes[1].ref = vRef
                /\ rcall.probes[1].ans = vThere
                /\ vThere => rcall.result = vRef /\ Len(rcall.probes) = 1
                /\ ~vThere => /\ Len(rcall.probes) = 2
                              /\ rcall.probes[2].ref = rcall.version
                              /\ rcall.probes[2].ans = bareThere
                              /\ rcall.result = (IF bareThere THEN rcall.version ELSE Null)

\* both v5.1.0 and 5.1.0 exist and the v-prefixed one was returned
C23_Witness ==
    /\ rcall.fn = "resolveLibRefFromVersion"
    /\ rcall.version = "5.1.0"
    /\ ExistsRemotely(LibRepo, "v5.1.0")
    /\ ExistsRemotely(LibRepo, "5.1.0")
    /\ rcall.result = "v5.1.0"
\* ---------------------------------------------------------------------
\* Specification SpecDeps: the version resolution of
\* resolveComponentVersions on parsed package.json documents whose three
\* dependency groups declare the header and the footer
\* ---------------------------------------------------------------------
DepGroupNames == << "dependencies", "devDependencies", "peerDependencies" >>

\* what a group may say of a package: nothing (Null) or a version range
HeaderDecls == { Null, "1.0.0", "^2.1.0", "" }
EdxHeaderDecls == { Null, "1.5.0" }
FooterDecls == { Null, "~3.0", "4.1.0" }

\* the group g of a document in which decl[p][g] is the declaration of p
DepGroupOf(decl, g) ==
    [p \in { q \in DOMAIN decl : decl[q][g] # Null } |-> decl[p][g]]

PackageJsonOf(decl) ==
    [ok |-> TRUE,
     dependencies |-> DepGroupOf(decl, 1),
     devDependencies |-> DepGroupOf(decl, 2),
     peerDependencies |-> DepGroupOf(decl, 3)]

InitDeps ==
    /\ remoteBranches = {}
    /\ remoteTags = {}
    /\ remoteContent = NoContent
    /\ cache = EmptyCache
    /\ ResolveIdle
    /\ PlugIdle
    /\ OrchIdle
    /\ \E h \in [1..3 -> HeaderDecls], e \in [1..3 -> EdxHeaderDecls],
          f \in [1..3 -> FooterDecls] :
          finput = ("@openedx/frontend-component-header" :> h)
                   @@ ("@edx/frontend-component-header" :> e)
                   @@ ("@openedx/frontend-component-footer" :> f)
    /\ fcall = NoCall

CallComponentVersionsOf ==
    /\ fcall = NoCall
    /\ fcall' = [fn |-> "resolveComponentVersions",
                 versions |-> ComponentVersionsOf(PackageJsonOf(finput))]
    /\ UNCHANGED <<plugVars, orchVars, remoteVars, cache, resolveVars, finput>>

NextDeps == CallComponentVersionsOf

SpecDeps == InitDeps /\ [][NextDeps]_vars

\* ---------------------------------------------------------------------
\* Claim C24 (checked under SpecDeps)
\* ---------------------------------------------------------------------
\* the groups of the document that declare package p
DeclaringGroups(p) == { g \in 1..3 : finput[p][g] # Null }

\* the declaration of p in the last group that declares it
LastDeclaration(p) ==
    finput[p][CHOOSE g \in DeclaringGroups(p) : \A k \in DeclaringGroups(p) : k <= g]

\* C24: when a package is declared in several of dependencies,
\* devDependencies and peerDependencies, the version resolved for it is
\* the one of the last declaring group in that order (peer over dev, dev
\* over runtime).
C24_LastGroupWins ==
    fcall.fn = "resolveComponentVersions" =>
        /\ (/\ DeclaringGroups("@openedx/frontend-component-header") # {}
            /\ LastDeclaration("@openedx/frontend-component-header") # "")
              => fcall.versions.headerVersion
                    = cleanVersion(LastDeclaration("@openedx/frontend-component-header"))
        /\ DeclaringGroups("@openedx/frontend-component-footer") # {}
              => fcall.versions.footerVersion
                    = cleanVersion(LastDeclaration("@openedx/frontend-component-footer"))
        /\ (/\ DeclaringGroups("@openedx/frontend-component-header") = {}
            /\ DeclaringGroups("@edx/frontend-component-header") # {})
              => fcall.versions.headerVersion
                    = cleanVersion(LastDeclaration("@edx/frontend-component-header"))

\* the header is declared in all three groups with different ranges and
\* the peerDependencies one is the version resolved
C24_Witness ==
    /\ fcall.fn = "resolveComponentVersions"
    /\ finput["@openedx/frontend-component-header"] = << "1.0.0", "", "^2.1.0" >>
    /\ finput["@openedx/frontend-component-footer"] = << "4.1.0", "~3.0", Null >>
    /\ fcall.versions.headerVersion = "2.1.0"
    /\ fcall.versions.footerVersion = "3.0.0"
\* ---------------------------------------------------------------------
\* Specification SpecDescr: parseEventFile on a signals file holding one
\* registration statement below a block of comment lines
\* ---------------------------------------------------------------------
MaxContinuation == 2      \* comment lines continuing the directive's text

\* a directive text longer than the 500 characters kept
LongDirective == Repeat("Emitted when a course run is created in Studio; ", 11) \o "end."

\* "" stands for a block without an event_description directive
DirectiveTexts == { "", "Emitted when a course is created.", LongDirective }

ContinuationTexts == << "It carries the course key.", "Sent by Studio.",
                        "Consumed by the catalog." >>

\* the event types with the phrase that the claim derives from each
EventTypes ==
    { [eventType |-> "org.openedx.content_authoring.course.created.v1",
       phrase |-> "Created"],
      [eventType |-> "org.openedx.learning.course.enrollment_changed.v1",
       phrase |-> "Enrollment changed"] }

\* what stands between the directive's text and the registration line
AfterKinds == { "none", "data", "warning", "gap19", "gap20" }

\* gap19 (gap20) puts the directive 20 (21) lines above the registration
AfterLines(kind, nCont) ==
    CASE kind = "none" -> <<>>
      [] kind = "data" -> << "# .. event_data: CourseData" >>
      [] kind = "warning" -> << "# .. event_warning: deprecated since Sumac",
                                "#   use COURSE_PUBLISHED instead" >>
      [] kind = "gap19" -> [i \in 1..(19 - nCont) |-> "# .. event_key_field: course.course_key"]
      [] kind = "gap20" -> [i \in 1..(20 - nCont) |-> "# .. event_key_field: course.course_key"]

RECURSIVE RenderLines(_)
RenderLines(ls) == IF ls = <<>> THEN "" ELSE Head(ls) \o "\n" \o RenderLines(Tail(ls))

\* the signals file of a block
RenderBlock(text, nCont, kind, eventType) ==
    "from openedx_events.tooling import OpenEdxPublicSignal\n\n"
    \o (IF text = "" THEN "" ELSE "# .. event_description: " \o text \o "\n")
    \o RenderLines([i \in 1..nCont |-> "#   " \o ContinuationTexts[i]])
    \o RenderLines(AfterLines(kind, nCont))
    \o "COURSE_CREATED = OpenEdxPublicSignal(\n"
    \o "    event_type=\"" \o eventType \o "\",\n"
    \o "    data={\n        \"course\": CourseData,\n    }\n)\n"

InitDescr ==
    /\ remoteBranches = {}
    /\ remoteTags = {}
    /\ remoteContent = NoContent
    /\ cache = EmptyCache
    /\ ResolveIdle
    /\ PlugIdle
    /\ OrchIdle
    /\ fcall = NoCall
    /\ \E text \in DirectiveTexts, nCont \in 0..MaxContinuation, kind \in AfterKinds,
          t \in EventTypes :
          finput = [text |-> text, nCont |-> nCont, after |-> kind, type |-> t,
                    content |-> RenderBlock(text, nCont, kind, t.eventType)]

CallParseBlock ==
    /\ fcall = NoCall
    /\ fcall' = [fn |-> "parseEventFile",
                 events |-> parseEventFile(finput.content, SignalsPath, "content_authoring")]
    /\ UNCHANGED <<plugVars, orchVars, remoteVars, cache, resolveVars, finput>>

NextDescr == CallParseBlock

SpecDescr == InitDescr /\ [][NextDescr]_vars

\* ---------------------------------------------------------------------
\* Claim C25 (checked under SpecDescr)
\* ---------------------------------------------------------------------
\* lines from the directive down to the registration line
DirectiveDistance == 1 + finput.nCont + Len(AfterLines(finput.after, finput.nCont))

\* the directive's text joined with the comment lines that directly follow
JoinedDirective ==
    join(<< finput.text >> \o SubSeq(ContinuationTexts, 1, finput.nCont), " ")

ClaimedDescription ==
    IF finput.text # "" /\ DirectiveDistance <= 20
    THEN IF Len(JoinedDirective) > 500 THEN SubSeq(JoinedDirective, 1, 500)
         ELSE JoinedDirective
    ELSE finput.type.phrase

BlockParsed == fcall.fn = "parseEventFile" /\ Len(fcall.events) = 1

\* C25: the description is the directive's text joined with the comment
\* lines directly following it, cut to 500 characters, when the directive
\* lies within the 20 lines above the registration line; otherwise it is
\* the second-to-last segment of the event type, underscores turned to
\* spaces and the first letter capitalised.
C25_DescriptionFromDirectiveInWindow ==
    fcall.fn = "parseEventFile" =>
        /\ Len(fcall.events) = 1
        /\ fcall.events[1].description = ClaimedDescription

\* what holds of the code: the claim, for blocks in which no plain comment
\* line stands below a later directive
DescriptionWhenNoLaterComment ==
    (fcall.fn = "parseEventFile" /\ ~(finput.text # "" /\ finput.after = "warning")) =>
        /\ Len(fcall.events) = 1
        /\ fcall.events[1].description = ClaimedDescription

\* the continuation of the event_warning directive has been appended to
\* the description
C25_Witness ==
    /\ BlockParsed
    /\ finput.text = "Emitted when a course is created."
    /\ finput.nCont = 1
    /\ finput.after = "warning"
    /\ fcall.events[1].description
          = "Emitted when a course is created. It carries the course key. use COURSE_PUBLISHED instead"
\* ---------------------------------------------------------------------
\* Claim C26 (checked under SpecReleases)
\* ---------------------------------------------------------------------
\* the names of the written events of a namespace, in document order
WrittenEventNames(namespace) ==
    LET es == SelectSeq(files[EventsOutputPath].events, LAMBDA e : e.namespace = namespace)
    IN [i \in DOMAIN es |-> es[i].eventName]

\* C26: a domain whose signals.py cannot be fetched (enterprise) is left
\* out without ending the run: the domain listed before it (learning) and
\* the one listed after it (content_authoring) are collected and written;
\* the domain without data.py (content_authoring) gives all its events,
\* none of them with dataClasses.
C26_MissingSignalsSkipsDomainOnly ==
    EventsOutputPath \in DOMAIN files =>
        /\ WrittenEventNames("learning") = << "ENROLLMENT_CHANGED", "SESSION_STARTED" >>
        /\ WrittenEventNames("enterprise") = <<>>
        /\ WrittenEventNames("content-authoring") = << "COURSE_CREATED" >>
        /\ \A i \in DOMAIN files[EventsOutputPath].events :
              LET e == files[EventsOutputPath].events[i] IN
              e.namespace = "content-authoring" => "dataClasses" \notin DOMAIN e
        /\ ~\E i \in DOMAIN log : /\ log[i].msg = "Error during collection"
                                    /\ log[i].text = "events"

\* the events document was written with the event of content_authoring
\* after those of learning, the first of which carries dataClasses
C26_Witness ==
    /\ EventsOutputPath \in DOMAIN files
    /\ Len(files[EventsOutputPath].events) = 3
    /\ "dataClasses" \in DOMAIN files[EventsOutputPath].events[1]
    /\ files[EventsOutputPath].events[3].eventName = "COURSE_CREATED"
    /\ "dataClasses" \notin DOMAIN files[EventsOutputPath].events[3]
    /\ <<"openedx", "openedx-events", DefaultBranch, "openedx_events/enterprise/signals.py">>
          \notin DOMAIN remoteContent
    /\ pc = "done"
\* ---------------------------------------------------------------------
\* Claim C27 (checked under SpecPlugins)
\* ---------------------------------------------------------------------
WrittenMfes == files[fcall.outputPath].mfes

WrittenMfeIds == { WrittenMfes[m].id : m \in DOMAIN WrittenMfes }

\* the slot records of the repository's own plugin-slots directory
OwnSlots(mfeId) ==
    { k \in DOMAIN WrittenSlots : WrittenSlots[k].mfeId = mfeId /\ WrittenSlots[k].type = "mfe" }

\* C27: in the written document every slot record, those of the header
\* and the footer included, names in mfeId an entry of mfes, and every
\* entry of mfes has pluginSlotsCount equal to the number of its own slot
\* records.
C27_SlotsReferToWrittenMfes ==
    PluginsReturned =>
        /\ \A k \in DOMAIN WrittenSlots : WrittenSlots[k].mfeId \in WrittenMfeIds
        /\ \A m \in DOMAIN WrittenMfes :
              WrittenMfes[m].pluginSlotsCount = Cardinality(OwnSlots(WrittenMfes[m].id))

\* what holds of the code: the same for the records of type mfe
OwnSlotsReferToWrittenMfes ==
    PluginsReturned =>
        /\ \A k \in DOMAIN WrittenSlots :
              WrittenSlots[k].type = "mfe" => WrittenSlots[k].mfeId \in WrittenMfeIds
        /\ \A m \in DOMAIN WrittenMfes :
              WrittenMfes[m].pluginSlotsCount = Cardinality(OwnSlots(WrittenMfes[m].id))

\* frontend-app-learning has no slot of its own and is not in mfes, yet a
\* header slot is written under its mfeId
C27_Witness ==
    /\ PluginsReturned
    /\ "frontend-app-learning" \notin WrittenMfeIds
    /\ \E k \in DOMAIN WrittenSlots :
          /\ WrittenSlots[k].mfeId = "frontend-app-learning"
          /\ WrittenSlots[k].type = "header"
          /\ WrittenSlots[k].id = "DesktopHeaderSlot"
\* ---------------------------------------------------------------------
\* Claim C28 (checked under SpecEvents)
\* ---------------------------------------------------------------------
\* the phrase of the second-to-last segment of the statement's event type
OwnPhrase(d) ==
    CASE d.variableName = "COURSE_CREATED" -> "Created"
      [] d.variableName = "ENROLLMENT_CHANGED" -> "Changed"
      [] d.variableName = "SUBSIDY_REDEEMED" -> "Redeemed"
      [] d.variableName = "SESSION_STARTED" -> "Started"
      [] d.variableName = "COURSE_ENROLLMENT_CHANGED" -> "Updated"

OwnDescription(d) == IF d.directive # "" THEN d.directive ELSE OwnPhrase(d)

\* the entries of the statement's own data mapping that the key-class
\* pattern captures
OwnMappings(d) ==
    SelectSeq(d.data, LAMBDA p :
        Len(p.className) > 4 /\
        SubSeq(p.className, Len(p.className) - 3, Len(p.className)) \in {"Data", "Type"})

MappingsOf(event) ==
    IF event.attributes.kind = "mappings" THEN event.attributes.list ELSE <<>>

Parsed == fcall.fn = "parseEventFile"

\* C28: in a file of several registration statements the description and
\* the payload mappings of each event are those of its own statement:
\* neither those of an earlier statement whose variable name ends with
\* the event's name, nor the directive of another event.
C28_EventDerivedFromOwnStatement ==
    Parsed =>
        /\ Len(fcall.events) = Len(finput.defs)
        /\ \A i \in DOMAIN fcall.events :
              /\ fcall.events[i].eventName = finput.defs[i].variableName
              /\ fcall.events[i].description = OwnDescription(finput.defs[i])
              /\ MappingsOf(fcall.events[i]) = OwnMappings(finput.defs[i])

\* what holds of the code: the first statement of a file is read from
\* its own text, and every event has the name and the type of its own
\* statement
FirstStatementOwn ==
    Parsed =>
        /\ Len(fcall.events) = Len(finput.defs)
        /\ \A i \in DOMAIN fcall.events :
              /\ fcall.events[i].eventName = finput.defs[i].variableName
              /\ fcall.events[i].eventType = finput.defs[i].eventType
        /\ fcall.events[1].description = OwnDescription(finput.defs[1])
        /\ MappingsOf(fcall.events[1]) = OwnMappings(finput.defs[1])

\* ENROLLMENT_CHANGED, registered below COURSE_ENROLLMENT_CHANGED, has
\* been given the mapping of that statement
C28_Witness ==
    /\ Parsed
    /\ Len(finput.defs) = 2
    /\ finput.defs[1].variableName = "COURSE_ENROLLMENT_CHANGED"
    /\ finput.defs[2].variableName = "ENROLLMENT_CHANGED"
    /\ Len(fcall.events) = 2
    /\ fcall.events[2].eventName = "ENROLLMENT_CHANGED"
    /\ MappingsOf(fcall.events[2]) = << Mapping("course", "CourseData") >>

\* SESSION_STARTED, registered below COURSE_CREATED and without a
\* directive of its own, has been given the description of COURSE_CREATED
DirectiveOfOtherEventTaken ==
    /\ Parsed
    /\ Len(finput.defs) = 2
    /\ finput.defs[1].variableName = "COURSE_CREATED"
    /\ finput.defs[2].variableName = "SESSION_STARTED"
    /\ Len(fcall.events) = 2
    /\ fcall.events[2].description = "Emitted when a course is created."
\* ---------------------------------------------------------------------
\* Specification SpecKeys: getTextFile and listDir called with and
\* without a ref on one repository; finput remembers, for every key of
\* the cache, the call that stored its entry
\* ---------------------------------------------------------------------
MaxKeyCalls == 3          \* gateway calls in one behaviour of SpecKeys

\* ref omitted (the default branch), a branch named default, a release branch
KeyRefs == { Null, "default", "release/sumac" }

KeyPaths == { "package.json", "src/plugin-slots", "src/plugin-slots:dir" }

NameOfRef(ref) == IF ref = Null THEN "main" ELSE ref

\* every ref holds package.json with a text of its own, the directory
\* src/plugin-slots and a file named src/plugin-slots:dir
KeysRemote ==
    [k \in { RKey(GwRepo, ref, path) : ref \in KeyRefs, path \in KeyPaths } |->
        IF k[4] = "package.json"
        THEN FileAnswer("{\"name\":\"mfe\",\"branch\":\"" \o NameOfRef(k[3]) \o "\"}")
        ELSE IF k[4] = "src/plugin-slots"
        THEN DirAnswer(<< DirEntry("dir", "CourseSlot") >>)
        ELSE FileAnswer("notes\n")]

InitKeys ==
    /\ remoteBranches = { <<GwRepo, "main">>, <<GwRepo, "default">>,
                          <<GwRepo, "release/sumac">> }
    /\ remoteTags = {}
    /\ remoteContent = KeysRemote
    /\ cache = EmptyCache
    /\ ResolveIdle
    /\ finput = [k \in {} |-> NoCall]
    /\ fcall = NoCall
    /\ PlugIdle
    /\ OrchIdle

\* the call that stored the entry under key, for a call that found one
StoredBy(key) == IF key \in DOMAIN finput THEN finput[key] ELSE NoCall

\* finput after a call: the call is remembered under the key it stored
Stored(key, newCache, call) ==
    IF key \notin DOMAIN cache /\ key \in DOMAIN newCache
    THEN CachePut(finput, key, call)
    ELSE finput

KeysGetTextFile ==
    /\ ncalls < MaxKeyCalls
    /\ \E path \in KeyPaths, ref \in KeyRefs :
          \E r \in {getTextFile(cache, "openedx", GwRepo, path, ref)} :
          \E key \in {cacheKey("openedx", GwRepo, path, ref)} :
             /\ fcall' = [fn |-> "getTextFile", path |-> path, ref |-> ref,
                          hit |-> key \in DOMAIN cache, storedBy |-> StoredBy(key),
                          answer |-> [kind |-> "text", text |-> r.text]]
             /\ finput' = Stored(key, r.cache, [fn |-> "getTextFile", path |-> path,
                                               ref |-> ref])
             /\ cache' = r.cache
    /\ ncalls' = ncalls + 1
    /\ UNCHANGED <<remoteVars, rcall, plugVars, orchVars>>

KeysListDir ==
    /\ ncalls < MaxKeyCalls
    /\ \E path \in KeyPaths, ref \in KeyRefs :
          \E r \in {listDir(cache, "openedx", GwRepo, path, ref)} :
          \E key \in {cacheKey("openedx", GwRepo, path, ref) \o ":dir"} :
             /\ fcall' = [fn |-> "listDir", path |-> path, ref |-> ref,
                          hit |-> key \in DOMAIN cache, storedBy |-> StoredBy(key),
                          answer |-> [kind |-> "entries", entries |-> r.entries]]
             /\ finput' = Stored(key, r.cache, [fn |-> "listDir", path |-> path,
                                               ref |-> ref])
             /\ cache' = r.cache
    /\ ncalls' = ncalls + 1
    /\ UNCHANGED <<remoteVars, rcall, plugVars, orchVars>>

KeysClearCache ==
    /\ cache # EmptyCache
    /\ cache' = EmptyCache
    /\ finput' = [k \in {} |-> NoCall]
    /\ fcall' = NoCall
    /\ UNCHANGED <<remoteVars, rcall, ncalls, plugVars, orchVars>>

NextKeys ==
    \/ KeysGetTextFile
    \/ KeysListDir
    \/ KeysClearCache

SpecKeys == InitKeys /\ [][NextKeys]_vars

\* ---------------------------------------------------------------------
\* Claim C29 (checked under SpecKeys)
\* ---------------------------------------------------------------------
ServedFromCache == fcall.fn \in {"getTextFile", "listDir"} /\ fcall.hit

\* C29: a call served from the cache gets the entry of a call of the same
\* operation on the same path and the same ref (owner and repository are
\* the same throughout): never an entry of the other operation, never the
\* entry of a call that named a ref when it omits the ref, or the reverse.
C29_EntrySharedOnlyBySameRequest ==
    ServedFromCache =>
        /\ fcall.storedBy.fn = fcall.fn
        /\ fcall.storedBy.path = fcall.path
        /\ fcall.storedBy.ref = fcall.ref

\* what holds of the code: an entry is shared by the same request, by
\* the same request with the ref omitted and with the ref "default", and
\* by listDir on a path and getTextFile on that path followed by ":dir"
EntrySharedOnlyByCollidingKey ==
    ServedFromCache =>
        /\ NameOfRef(fcall.storedBy.ref) = NameOfRef(fcall.ref)
              \/ {fcall.storedBy.ref, fcall.ref} = {Null, "default"}
        /\ \/ fcall.storedBy.fn = fcall.fn /\ fcall.storedBy.path = fcall.path
           \/ \E p \in KeyPaths :
                 {[fn |-> fcall.storedBy.fn, path |-> fcall.storedBy.path],
                  [fn |-> fcall.fn, path |-> fcall.path]}
                    = {[fn |-> "listDir", path |-> p],
                       [fn |-> "getTextFile", path |-> p \o ":dir"]}

\* package.json of the branch named default was asked for and the text of
\* the default branch, stored by a call without ref, was returned
C29_Witness ==
    /\ ServedFromCache
    /\ fcall.fn = "getTextFile"
    /\ fcall.path = "package.json"
    /\ fcall.ref = "default"
    /\ fcall.storedBy = [fn |-> "getTextFile", path |-> "package.json", ref |-> Null]
    /\ fcall.answer.text = remoteContent[RKey(GwRepo, Null, "package.json")].text
    /\ fcall.answer.text # remoteContent[RKey(GwRepo, "default", "package.json")].text

\* getTextFile on src/plugin-slots:dir was given the listing that listDir
\* stored for src/plugin-slots
ListingServedAsText ==
    /\ ServedFromCache
    /\ fcall.fn = "getTextFile"
    /\ fcall.path = "src/plugin-slots:dir"
    /\ fcall.storedBy.fn = "listDir"
    /\ fcall.storedBy.path = "src/plugin-slots"
\* ---------------------------------------------------------------------
\* Claim C30 (checked under SpecSlot)
\* ---------------------------------------------------------------------
\* a slot record was built for a directory without README.md
BuiltWithoutReadme ==
    /\ fcall.fn \in {"parsePluginSlot", "parseComponentPluginSlot"}
    /\ finput = Null

\* C30: the record of a slot directory without README.md has
\* readmePresent false, no readmeContent, an empty description and
\* hasExamples false, whatever the directory and the owner are called.
C30_PlaceholderRecordIsBare ==
    BuiltWithoutReadme =>
        /\ ~fcall.slot.readmePresent
        /\ fcall.slot.readmeContent = Null
        /\ fcall.slot.description = ""
        /\ ~fcall.slot.hasExamples

\* what holds of the code: no README is reported, and the description and
\* hasExamples are bare unless the placeholder's heading, which is the
\* directory name, reads as a description or an examples heading
PlaceholderRecordBareUnlessNamedSo ==
    BuiltWithoutReadme =>
        /\ ~fcall.slot.readmePresent
        /\ fcall.slot.readmeContent = Null
        /\ fcall.slot.id # "Description" => fcall.slot.description = ""
        /\ fcall.slot.id # "Examples" => ~fcall.slot.hasExamples

\* the directory Examples without README.md is reported with examples
C30_Witness ==
    /\ BuiltWithoutReadme
    /\ fcall.fn = "parsePluginSlot"
    /\ fcall.slot.id = "Examples"
    /\ ~fcall.slot.readmePresent
    /\ fcall.slot.hasExamples

\* the directory Description without README.md gets the placeholder's
\* second line as its description
PlaceholderLineAsDescription ==
    /\ BuiltWithoutReadme
    /\ fcall.fn = "parseComponentPluginSlot"
    /\ fcall.slot.id = "Description"
    /\ fcall.slot.description = "Plugin slot for Header"

====
